---- MODULE Spec2Model ----
(***************************************************************************)
(* AnyNote workers: authentication, session lifecycle and rate limiting.   *)
(* Times are Unix milliseconds (Date.now()); JWT iat/exp are seconds.      *)
(***************************************************************************)
EXTENDS Integers, Sequences, FiniteSets, TLC

(* ------------------------------ bounds -------------------------------- *)
\* number of request contexts that run login concurrently (SpecConc)
NumLogins == 4
\* number of clock advances the sequential specification explores
MaxTicks == 2
\* register, login and refresh are explored while fewer than this many ids
\* have been drawn, tokens signed and attempts recorded for the IP
MaxIssued == 4
\* number of request contexts that call register and getSalt concurrently
\* (SpecReg)
NumCallers == 3

(* ------------------------- program constants -------------------------- *)
maxDevices == 3
SessionTtlMs == 7 * 24 * 60 * 60 * 1000
CooldownMs == 5000
WindowMs == 3600000
BanMs == 7200000
BanThreshold == 5
IpLimit == 10
LoginKvTtlSec == 10800
IpKvTtlSec == 7200
AccessTtl == <<15, "m">>
\* env.JWT_EXPIRES_IN; signJWT falls back to '7d' when it is not set
JwtExpiresIn == <<7, "d">>

\* Date.now() when the model starts, and the last instant it explores
StartTime == 100 * 1000 * 1000
Horizon == StartTime + SessionTtlMs + 2 * 15 * 60 * 1000

Procs == 1..NumLogins
SeqProc == CHOOSE p \in Procs : \A q \in Procs : p <= q

(* ------------------------------ inputs -------------------------------- *)
Names == {"alice", "bob"}
Spellings == {"lower", "mixed"}
\* an email is a name in some letter-case spelling
Emails == [name : Names, spelling : Spellings]
LowerEmails == {e \in Emails : e.spelling = "lower"}
\* auth_hash values: equal-length bit strings, one bit apart
Hashes == {<<0, 1>>, <<1, 1>>}
Salts == {"S1", "S2"}
IPs == {"ip1"}

toLowerCase(email) == [email EXCEPT !.spelling = "lower"]

(* ------------------------------ helpers ------------------------------- *)
CeilDiv(a, b) == (a + b - 1) \div b

Xor(a, b) == IF a = b THEN 0 ELSE 1
Or(a, b) == IF a = 0 /\ b = 0 THEN 0 ELSE 1

RECURSIVE CompareLoop(_, _, _, _)
CompareLoop(a, b, i, result) ==
  IF i > Len(a) THEN result
  ELSE CompareLoop(a, b, i + 1, Or(result, Xor(a[i], b[i])))

constantTimeCompare(a, b) ==
  IF Len(a) # Len(b) THEN FALSE ELSE CompareLoop(a, b, 1, 0) = 0

Multiplier(unit) ==
  CASE unit = "s" -> 1
    [] unit = "m" -> 60
    [] unit = "h" -> 3600
    [] unit = "d" -> 86400

parseDuration(duration) == duration[1] * Multiplier(duration[2])

getCurrentTimestamp(t) == t \div 1000

(* ids: crypto.randomUUID() draws are numbered; a legacy session id is    *)
(* the string legacy-<user_id>-<exp>                                       *)
Uuid(k) == <<"uuid", 0, k>>
LegacyId(user_id, exp) == <<"legacy", user_id, exp>>
NoJti == <<"none", 0, 0>>
NoRefresh == 0

(* a signed token: payload claims plus whether the HMAC is the service's  *)
signJWT(user_id, jti, expiresIn, t) ==
  [user_id |-> user_id, jti |-> jti,
   iat |-> getCurrentTimestamp(t),
   exp |-> getCurrentTimestamp(t) + parseDuration(expiresIn),
   sig |-> "valid"]

NoToken == [user_id |-> 0, jti |-> NoJti, iat |-> 0, exp |-> 0, sig |-> "none"]

\* TRUE when verifyJWT returns the payload, FALSE when it throws
verifyJWT(token, t) ==
  /\ token.sig = "valid"
  /\ ~(token.exp # 0 /\ token.exp < getCurrentTimestamp(t))

(* ------------------------- key-value store ---------------------------- *)
LoginKey(email) == <<"login", email.name, email.spelling>>
IpKey(ip) == <<"ip", ip, "">>

KvHas(k, key, t) == key \in DOMAIN k /\ t < k[key].expiration
KvPut(k, key, state, ttlSec, t) ==
  [x \in DOMAIN k \cup {key} |->
     IF x = key THEN [state |-> state, expiration |-> t + ttlSec * 1000]
     ELSE k[x]]
KvDelete(k, key) == [x \in DOMAIN k \ {key} |-> k[x]]

\* keys whose expirationTtl has run out are gone
KvExpire(k, t) == [x \in {y \in DOMAIN k : t < k[y].expiration} |-> k[x]]

Allowed == [allowed |-> TRUE, reason |-> "", waitSeconds |-> 0]
Denied(reason, wait) == [allowed |-> FALSE, reason |-> reason, waitSeconds |-> wait]

checkRateLimit(k, email, t) ==
  IF ~KvHas(k, LoginKey(email), t) THEN Allowed
  ELSE LET state == k[LoginKey(email)].state IN
    IF state.banUntil # 0 /\ t < state.banUntil
      THEN Denied("ACCOUNT_BANNED", CeilDiv(state.banUntil - t, 1000))
    ELSE IF state.lastFailureAt # 0 /\ (t - state.lastFailureAt) < CooldownMs
      THEN Denied("TOO_FREQUENT", CeilDiv(CooldownMs - (t - state.lastFailureAt), 1000))
    ELSE Allowed

FirstFailure(t) ==
  [failureCount |-> 1, firstFailureAt |-> t, lastFailureAt |-> t, banUntil |-> 0]

\* a recordFailure whose window closes at the hour itself
recordFailureClosedAtHour(k, email, t) ==
  LET key == LoginKey(email)
      state ==
        IF ~KvHas(k, key, t) THEN FirstFailure(t)
        ELSE LET old == k[key].state IN
          IF t - old.firstFailureAt >= WindowMs THEN FirstFailure(t)
          ELSE [old EXCEPT !.failureCount = old.failureCount + 1,
                           !.lastFailureAt = t,
                           !.banUntil = IF old.failureCount + 1 >= BanThreshold
                                        THEN t + BanMs ELSE old.banUntil]
  IN KvPut(k, key, state, LoginKvTtlSec, t)

recordFailure(k, email, t) ==
  LET key == LoginKey(email)
      state ==
        IF ~KvHas(k, key, t) THEN FirstFailure(t)
        ELSE LET old == k[key].state IN
          IF t - old.firstFailureAt > WindowMs THEN FirstFailure(t)
          ELSE [old EXCEPT !.failureCount = old.failureCount + 1,
                           !.lastFailureAt = t,
                           !.banUntil = IF old.failureCount + 1 >= BanThreshold
                                        THEN t + BanMs ELSE old.banUntil]
  IN KvPut(k, key, state, LoginKvTtlSec, t)

\* a success that zeroes the count and keeps the rest of the state
recordSuccessKeepsState(k, email) ==
  IF LoginKey(email) \in DOMAIN k
  THEN [k EXCEPT ![LoginKey(email)].state.failureCount = 0] ELSE k

recordSuccess(k, email) == KvDelete(k, LoginKey(email))

checkIPRateLimit(k, ip, t) ==
  IF ~KvHas(k, IpKey(ip), t) THEN Allowed
  ELSE LET state == k[IpKey(ip)].state IN
    IF (t - state.firstAttemptAt) < WindowMs /\ state.attemptCount >= IpLimit
      THEN Denied("IP_RATE_LIMIT", CeilDiv(WindowMs - (t - state.firstAttemptAt), 1000))
    ELSE Allowed

FirstAttempt(t) ==
  [attemptCount |-> 1, firstAttemptAt |-> t, lastAttemptAt |-> t]

recordIPAttempt(k, ip, t) ==
  LET key == IpKey(ip)
      state ==
        IF ~KvHas(k, key, t) THEN FirstAttempt(t)
        ELSE LET old == k[key].state IN
          IF t - old.firstAttemptAt > WindowMs THEN FirstAttempt(t)
          ELSE [old EXCEPT !.attemptCount = old.attemptCount + 1,
                           !.lastAttemptAt = t]
  IN KvPut(k, key, state, IpKvTtlSec, t)

(* --------------------------- session store ---------------------------- *)
Row(id, user_id, created_at, expires_at, refresh_token) ==
  [id |-> id, user_id |-> user_id, is_active |-> 1,
   created_at |-> created_at, expires_at |-> expires_at,
   refresh_token |-> refresh_token]

findById(S, sessionId) == {s \in S : s.id = sessionId}

findActive(S, userId, t) ==
  {s \in S : s.user_id = userId /\ s.is_active = 1 /\ s.expires_at > t}

\* a lookup that forgets is_active = 1
findByRefreshTokenAny(S, refreshToken, t) ==
  {s \in S : s.refresh_token = refreshToken /\ s.expires_at > t}

findByRefreshToken(S, refreshToken, t) ==
  {s \in S : s.refresh_token = refreshToken /\ s.is_active = 1 /\ s.expires_at > t}

\* the rows the subquery of revokeOldestSession may select (ORDER BY
\* created_at ASC LIMIT 1; rows with equal created_at are in no defined order)
OldestActive(S, userId, t) ==
  {s \in findActive(S, userId, t) :
     \A r \in findActive(S, userId, t) : s.created_at <= r.created_at}

\* UPDATE sessions SET is_active = 0 WHERE id = ?
revoke(S, sessionId) ==
  {IF s.id = sessionId THEN [s EXCEPT !.is_active = 0] ELSE s : s \in S}

\* INSERT: id is the primary key
CanInsert(S, id) == findById(S, id) = {}

(* ------------------------------- state -------------------------------- *)
VARIABLES
  now,       \* Date.now()
  ticks,     \* clock advances so far
  users,     \* users table
  sessions,  \* sessions table
  tokens,    \* access tokens the service has returned to clients
  kv,        \* RATE_LIMIT key-value namespace
  nextUuid,  \* number of the next crypto.randomUUID() draw
  pc,        \* position of each request context
  req,       \* the request each context is handling
  loc,       \* locals of each request context
  resp,      \* the response each context returned last
  notes,     \* rows of the notes and passwords tables
  maxSize,   \* LRUCache.maxSize of the web client's cache
  cache,     \* LRUCache.cache, its entries in the Map's iteration order
  ret,       \* the LRUCache method called last and what it returned
  used       \* history: the keys of the cache's entries in the order of their
             \* uses (get of a present key, set)

\* the state of the web client's cache
web == <<maxSize, cache, ret, used>>

vars == <<now, ticks, users, sessions, tokens, kv, nextUuid, pc, req, loc, resp,
          notes, web>>

\* new LRUCache() with the default maxSize, nothing called yet
DefaultMaxSize == 200
NoCall == [op |-> "", key |-> "", value |-> ""]
NoCache == maxSize = DefaultMaxSize /\ cache = <<>> /\ ret = NoCall /\ used = <<>>

NoEmail == [name |-> "", spelling |-> ""]
NoReq == [kind |-> "", email |-> NoEmail, auth_hash |-> <<>>, ip |-> "",
          token |-> NoToken, target |-> NoJti, refresh_token |-> NoRefresh,
          salt |-> ""]
NoLoc == [user |-> 0, activeSessions |-> 0, revokedSession |-> {},
          sessionId |-> NoJti, nIPAttempt |-> 0, nSuccess |-> 0, nFailure |-> 0,
          verified |-> FALSE,
          failedAt |-> <<>>]  \* history: the times of the caller's recordFailure
                             \* calls since its last recordSuccess
\* the value of a property that an object does not have
Undefined == 0 - 1
Get(obj, key) == IF key \in DOMAIN obj THEN obj[key] ELSE Undefined

NoResp == [status |-> 0, code |-> "", token |-> NoToken,
           refresh_token |-> NoRefresh, session_id |-> NoJti, salt |-> "",
           user_id |-> Undefined]

Reply(status, code) == [NoResp EXCEPT !.status = status, !.code = code]

Ready(p) == pc[p] \in {"idle", "done"}
Quiet == \A p \in Procs : Ready(p)

EmptyKv == [x \in {} |-> 0]

Init ==
  /\ NoCache
  /\ notes = {}
  /\ now = StartTime
  /\ ticks = 0
  /\ users = {}
  /\ sessions = {}
  /\ tokens = {}
  /\ kv = EmptyKv
  /\ nextUuid = 1
  /\ pc = [p \in Procs |-> "idle"]
  /\ req = [p \in Procs |-> NoReq]
  /\ loc = [p \in Procs |-> NoLoc]
  /\ resp = [p \in Procs |-> NoResp]

(* the clock advances between requests, by the amount the schedule gives *)
Tick(step) ==
  /\ UNCHANGED <<notes, web>>
  /\ Quiet
  /\ ticks < MaxTicks
  /\ now + step <= Horizon
  /\ now' = now + step
  /\ ticks' = ticks + 1
  /\ kv' = KvExpire(kv, now')
  /\ UNCHANGED <<users, sessions, tokens, nextUuid, pc, req, loc, resp>>

(* ------------------------------ register ------------------------------ *)
\* a lookup that compares the email as typed
findByEmailExact(U, email) == {u \in U : u.email = email}

\* SELECT * FROM users WHERE email = ? bound to email.toLowerCase()
findByEmail(U, email) == {u \in U : u.email = toLowerCase(email)}
emailExists(U, email) == findByEmail(U, email) # {}

\* POST /api/auth/register with well-formed email, auth_hash and salt;
\* inviteOk is the outcome of the invite-code lookup
Register(p, email, auth_hash, salt, ip, inviteOk) ==
  /\ UNCHANGED <<notes, web>>
  /\ Ready(p)
  /\ LET ipRateCheck == checkIPRateLimit(kv, ip, now)
         kv1 == recordIPAttempt(kv, ip, now)
         user == [id |-> nextUuid, email |-> toLowerCase(email),
                  auth_hash |-> auth_hash, salt |-> salt]
         token == signJWT(user.id, NoJti, JwtExpiresIn, now)
     IN
     /\ req' = [req EXCEPT ![p] = [NoReq EXCEPT !.kind = "register",
                                     !.email = email, !.auth_hash = auth_hash,
                                     !.ip = ip, !.salt = salt]]
     /\ loc' = [loc EXCEPT ![p] = NoLoc]
     /\ pc' = [pc EXCEPT ![p] = "done"]
     /\ IF ~ipRateCheck.allowed THEN
          /\ resp' = [resp EXCEPT ![p] = Reply(429, "IP_RATE_LIMIT")]
          /\ UNCHANGED <<users, tokens, kv, nextUuid>>
        ELSE IF ~inviteOk THEN
          /\ resp' = [resp EXCEPT ![p] = Reply(403, "INVITE_CODE_INVALID")]
          /\ kv' = kv1
          /\ UNCHANGED <<users, tokens, nextUuid>>
        ELSE IF emailExists(users, email) THEN
          /\ resp' = [resp EXCEPT ![p] = Reply(400, "REGISTRATION_FAILED")]
          /\ kv' = kv1
          /\ UNCHANGED <<users, tokens, nextUuid>>
        ELSE
          /\ users' = users \cup {user}
          /\ tokens' = tokens \cup {token}
          /\ nextUuid' = nextUuid + 1
          /\ kv' = kv1
          /\ resp' = [resp EXCEPT ![p] = [Reply(200, "OK") EXCEPT !.token = token]]
  /\ UNCHANGED <<now, ticks, sessions>>

(* ------------------------------- login -------------------------------- *)
\* the catch block of the login handler: recordFailure, then 401
LoginCatch(p) ==
  /\ kv' = recordFailure(kv, req[p].email, now)
  /\ loc' = [loc EXCEPT ![p].nFailure = @ + 1]
  /\ resp' = [resp EXCEPT ![p] = Reply(401, "LOGIN_FAILED")]
  /\ pc' = [pc EXCEPT ![p] = "done"]

\* a handler that verifies the credentials before it consults the limiter
LoginStartVerifyFirst(p, email, auth_hash, ip) ==
  /\ UNCHANGED <<notes, web>>
  /\ Ready(p)
  /\ LET ipRateCheck == checkIPRateLimit(kv, ip, now)
         rateCheck == checkRateLimit(kv, email, now)
         kv1 == recordIPAttempt(kv, ip, now)
         matching == {u \in findByEmail(users, email) :
                        constantTimeCompare(u.auth_hash, auth_hash)}
         tried == [NoLoc EXCEPT !.nIPAttempt = 1, !.verified = TRUE]
     IN
     /\ req' = [req EXCEPT ![p] = [NoReq EXCEPT !.kind = "login",
                                     !.email = email, !.auth_hash = auth_hash, !.ip = ip]]
     /\ IF matching = {} THEN
          /\ kv' = recordFailure(kv1, email, now)
          /\ loc' = [loc EXCEPT ![p] = [tried EXCEPT !.nFailure = 1]]
          /\ resp' = [resp EXCEPT ![p] = Reply(401, "LOGIN_FAILED")]
          /\ pc' = [pc EXCEPT ![p] = "done"]
        ELSE IF ~ipRateCheck.allowed THEN
          /\ resp' = [resp EXCEPT ![p] = Reply(429, "IP_RATE_LIMIT")]
          /\ loc' = [loc EXCEPT ![p] = NoLoc]
          /\ pc' = [pc EXCEPT ![p] = "done"]
          /\ UNCHANGED kv
        ELSE IF ~rateCheck.allowed THEN
          /\ resp' = [resp EXCEPT ![p] = Reply(429, rateCheck.reason)]
          /\ loc' = [loc EXCEPT ![p] = NoLoc]
          /\ pc' = [pc EXCEPT ![p] = "done"]
          /\ UNCHANGED kv
        ELSE
          /\ kv' = recordSuccess(kv1, email)
          /\ \E u \in matching :
               loc' = [loc EXCEPT ![p] = [tried EXCEPT !.nSuccess = 1, !.user = u.id]]
          /\ resp' = [resp EXCEPT ![p] = NoResp]
          /\ pc' = [pc EXCEPT ![p] = "findActive"]
  /\ UNCHANGED <<now, ticks, users, sessions, tokens, nextUuid>>

\* POST /api/auth/login up to credential verification
LoginStart(p, email, auth_hash, ip) ==
  /\ UNCHANGED <<notes, web>>
  /\ Ready(p)
  /\ LET ipRateCheck == checkIPRateLimit(kv, ip, now)
         rateCheck == checkRateLimit(kv, email, now)
         kv1 == recordIPAttempt(kv, ip, now)
         matching == {u \in findByEmail(users, email) :
                        constantTimeCompare(u.auth_hash, auth_hash)}
         tried == [NoLoc EXCEPT !.nIPAttempt = 1, !.verified = TRUE]
     IN
     /\ req' = [req EXCEPT ![p] = [NoReq EXCEPT !.kind = "login",
                                     !.email = email, !.auth_hash = auth_hash, !.ip = ip]]
     /\ IF ~ipRateCheck.allowed THEN
          /\ resp' = [resp EXCEPT ![p] = Reply(429, "IP_RATE_LIMIT")]
          /\ loc' = [loc EXCEPT ![p] = NoLoc]
          /\ pc' = [pc EXCEPT ![p] = "done"]
          /\ UNCHANGED kv
        ELSE IF ~rateCheck.allowed THEN
          /\ resp' = [resp EXCEPT ![p] = Reply(429, rateCheck.reason)]
          /\ loc' = [loc EXCEPT ![p] = NoLoc]
          /\ pc' = [pc EXCEPT ![p] = "done"]
          /\ UNCHANGED kv
        ELSE IF matching = {} THEN
          /\ kv' = recordFailure(kv1, email, now)
          /\ loc' = [loc EXCEPT ![p] = [tried EXCEPT !.nFailure = 1]]
          /\ resp' = [resp EXCEPT ![p] = Reply(401, "LOGIN_FAILED")]
          /\ pc' = [pc EXCEPT ![p] = "done"]
        ELSE
          /\ kv' = recordSuccess(kv1, email)
          /\ \E u \in matching :
               loc' = [loc EXCEPT ![p] = [tried EXCEPT !.nSuccess = 1, !.user = u.id]]
          /\ resp' = [resp EXCEPT ![p] = NoResp]
          /\ pc' = [pc EXCEPT ![p] = "findActive"]
  /\ UNCHANGED <<now, ticks, users, sessions, tokens, nextUuid>>

\* const activeSessions = await sessionRepo.findActive(user.id)
LoginFindActive(p, faults) ==
  /\ UNCHANGED <<notes, web>>
  /\ pc[p] = "findActive"
  /\ \E fault \in faults :
       IF fault THEN LoginCatch(p)
       ELSE
         /\ loc' = [loc EXCEPT ![p].activeSessions =
                      Cardinality(findActive(sessions, loc[p].user, now))]
         /\ pc' = [pc EXCEPT ![p] =
                      IF Cardinality(findActive(sessions, loc[p].user, now)) >= maxDevices
                      THEN "evict" ELSE "create"]
         /\ UNCHANGED <<kv, resp>>
  /\ UNCHANGED <<now, ticks, users, sessions, tokens, nextUuid, req>>

\* a subquery that forgets is_active = 1 AND expires_at > ?
OldestOfUser(S, userId, t) ==
  {s \in S : s.user_id = userId /\
     \A r \in S : r.user_id = userId => s.created_at <= r.created_at}

\* the rows revokeOldestSession may deactivate (those its subquery may select)
EvictCandidates(S, userId, t) == OldestActive(S, userId, t)

\* const revokedSession = await sessionRepo.revokeOldestSession(user.id)
LoginEvict(p, faults) ==
  /\ UNCHANGED <<notes, web>>
  /\ pc[p] = "evict"
  /\ \E fault \in faults :
       IF fault THEN LoginCatch(p) /\ UNCHANGED sessions
       ELSE
         /\ IF EvictCandidates(sessions, loc[p].user, now) = {} THEN
              UNCHANGED <<sessions, loc>>
            ELSE \E victim \in EvictCandidates(sessions, loc[p].user, now) :
              /\ sessions' = revoke(sessions, victim.id)
              /\ loc' = [loc EXCEPT ![p].revokedSession = {victim.id}]
         /\ pc' = [pc EXCEPT ![p] = "create"]
         /\ UNCHANGED <<kv, resp>>
  /\ UNCHANGED <<now, ticks, users, tokens, nextUuid, req>>

\* a session row that lives only as long as the access token
ShortSession(sessionId, userId, refreshToken, t) ==
  Row(sessionId, userId, t, t + parseDuration(AccessTtl) * 1000, refreshToken)

\* the session row a login inserts
NewSession(sessionId, userId, refreshToken, t) ==
  Row(sessionId, userId, t, t + SessionTtlMs, refreshToken)

\* the access token a login or a refresh signs for a session
AccessToken(userId, sessionId, t) == signJWT(userId, sessionId, AccessTtl, t)

\* sessionRepo.create(...), signJWT(...) and the 200 response
LoginCreate(p, faults) ==
  /\ UNCHANGED <<notes, web>>
  /\ pc[p] = "create"
  /\ \E fault \in faults :
       IF fault THEN LoginCatch(p) /\ UNCHANGED <<sessions, tokens, nextUuid>>
       ELSE
         LET sessionId == Uuid(nextUuid)
             refreshToken == nextUuid
             accessToken == AccessToken(loc[p].user, sessionId, now)
         IN
         IF ~CanInsert(sessions, sessionId) THEN
           LoginCatch(p) /\ UNCHANGED <<sessions, tokens, nextUuid>>
         ELSE
           /\ sessions' = sessions \cup
                {NewSession(sessionId, loc[p].user, refreshToken, now)}
           /\ nextUuid' = nextUuid + 1
           /\ tokens' = tokens \cup {accessToken}
           /\ loc' = [loc EXCEPT ![p].sessionId = sessionId]
           /\ resp' = [resp EXCEPT ![p] =
                [Reply(200, "OK") EXCEPT !.token = accessToken,
                                         !.refresh_token = refreshToken]]
           /\ pc' = [pc EXCEPT ![p] = "done"]
           /\ UNCHANGED kv
  /\ UNCHANGED <<now, ticks, users, req>>

(* ------------------------ bearer-auth middleware ----------------------- *)
\* the check authMiddleware makes on the row found for the token's jti
SessionValid(session, t) ==
  ~(session.is_active # 1 \/ session.expires_at < t)

\* authMiddleware for a request carrying a Bearer token
AuthMiddleware(p, token) ==
  /\ UNCHANGED <<notes, web>>
  /\ Ready(p)
  /\ req' = [req EXCEPT ![p] = [NoReq EXCEPT !.kind = "bearer", !.token = token]]
  /\ IF ~verifyJWT(token, now) THEN
       /\ resp' = [resp EXCEPT ![p] = Reply(401, "UNAUTHORIZED")]
       /\ loc' = [loc EXCEPT ![p] = NoLoc]
       /\ pc' = [pc EXCEPT ![p] = "done"]
     ELSE IF token.jti = NoJti THEN
       LET legacySessionId == LegacyId(token.user_id, token.exp) IN
       /\ loc' = [loc EXCEPT ![p] = [NoLoc EXCEPT !.user = token.user_id,
                                                    !.sessionId = legacySessionId]]
       /\ resp' = [resp EXCEPT ![p] = NoResp]
       /\ pc' = [pc EXCEPT ![p] =
                   IF findById(sessions, legacySessionId) = {}
                   THEN "legacyCreate" ELSE "handler"]
     ELSE IF \/ findById(sessions, token.jti) = {}
             \/ \E session \in findById(sessions, token.jti) :
                  ~SessionValid(session, now) THEN
       /\ resp' = [resp EXCEPT ![p] = Reply(401, "SESSION_INVALID")]
       /\ loc' = [loc EXCEPT ![p] = NoLoc]
       /\ pc' = [pc EXCEPT ![p] = "done"]
     ELSE
       /\ loc' = [loc EXCEPT ![p] = [NoLoc EXCEPT !.user = token.user_id,
                                                    !.sessionId = token.jti]]
       /\ resp' = [resp EXCEPT ![p] = NoResp]
       /\ pc' = [pc EXCEPT ![p] = "handler"]
  /\ UNCHANGED <<now, ticks, users, sessions, tokens, kv, nextUuid>>

\* authMiddleware creating the session row of a token that has no jti
AuthLegacyCreate(p) ==
  /\ UNCHANGED <<notes, web>>
  /\ pc[p] = "legacyCreate"
  /\ IF CanInsert(sessions, loc[p].sessionId) THEN
       /\ sessions' = sessions \cup
            {Row(loc[p].sessionId, req[p].token.user_id, now,
                 req[p].token.exp * 1000, NoRefresh)}
       /\ pc' = [pc EXCEPT ![p] = "handler"]
       /\ UNCHANGED <<loc, resp>>
     ELSE
       /\ resp' = [resp EXCEPT ![p] = Reply(401, "UNAUTHORIZED")]
       /\ loc' = [loc EXCEPT ![p] = NoLoc]
       /\ pc' = [pc EXCEPT ![p] = "done"]
       /\ UNCHANGED sessions
  /\ UNCHANGED <<now, ticks, users, tokens, kv, nextUuid, req>>

(* ------------------------- session endpoints --------------------------- *)
\* POST /api/auth/logout
Logout(p) ==
  /\ UNCHANGED <<notes, web>>
  /\ pc[p] = "handler"
  /\ req' = [req EXCEPT ![p].kind = "logout"]
  /\ sessions' = revoke(sessions, loc[p].sessionId)
  /\ resp' = [resp EXCEPT ![p] = Reply(200, "OK")]
  /\ pc' = [pc EXCEPT ![p] = "done"]
  /\ UNCHANGED <<now, ticks, users, tokens, kv, nextUuid, loc>>

\* GET /api/auth/heartbeat
Heartbeat(p) ==
  /\ UNCHANGED <<notes, web>>
  /\ pc[p] = "handler"
  /\ req' = [req EXCEPT ![p].kind = "heartbeat"]
  /\ LET user == [user_id |-> loc[p].user, email |-> ""]  \* c.get('user')
     IN resp' = [resp EXCEPT ![p] = [Reply(200, "OK") EXCEPT
                                       !.user_id = Get(user, "id"),
                                       !.session_id = loc[p].sessionId]]
  /\ pc' = [pc EXCEPT ![p] = "done"]
  /\ UNCHANGED <<now, ticks, users, sessions, tokens, kv, nextUuid, loc>>

\* a handler that skips the ownership check
RevokeSessionAnyOwner(p, targetSessionId) ==
  /\ UNCHANGED <<notes, web>>
  /\ pc[p] = "handler"
  /\ req' = [req EXCEPT ![p].kind = "revoke", ![p].target = targetSessionId]
  /\ IF targetSessionId = loc[p].sessionId THEN
       /\ resp' = [resp EXCEPT ![p] = Reply(400, "CANNOT_LOGOUT_SELF")]
       /\ UNCHANGED sessions
     ELSE
       /\ sessions' = revoke(sessions, targetSessionId)
       /\ resp' = [resp EXCEPT ![p] = Reply(200, "OK")]
  /\ pc' = [pc EXCEPT ![p] = "done"]
  /\ UNCHANGED <<now, ticks, users, tokens, kv, nextUuid, loc>>
\* DELETE /api/sessions/:sessionId
RevokeSession(p, targetSessionId) ==
  /\ UNCHANGED <<notes, web>>
  /\ pc[p] = "handler"
  /\ req' = [req EXCEPT ![p].kind = "revoke", ![p].target = targetSessionId]
  /\ IF targetSessionId = loc[p].sessionId THEN
       /\ resp' = [resp EXCEPT ![p] = Reply(400, "CANNOT_LOGOUT_SELF")]
       /\ UNCHANGED sessions
     ELSE IF \/ findById(sessions, targetSessionId) = {}
             \/ \E session \in findById(sessions, targetSessionId) :
                  session.user_id # loc[p].user THEN
       /\ resp' = [resp EXCEPT ![p] = Reply(403, "FORBIDDEN")]
       /\ UNCHANGED sessions
     ELSE
       /\ sessions' = revoke(sessions, targetSessionId)
       /\ resp' = [resp EXCEPT ![p] = Reply(200, "OK")]
  /\ pc' = [pc EXCEPT ![p] = "done"]
  /\ UNCHANGED <<now, ticks, users, tokens, kv, nextUuid, loc>>

\* a refresh that slides the session's deadline
SlidRow(session, t) == [session EXCEPT !.expires_at = t + SessionTtlMs]

\* what a successful refresh writes to the session row it found
RefreshedRow(session, t) == session

\* POST /api/auth/refresh
Refresh(p, refresh_token) ==
  /\ UNCHANGED <<notes, web>>
  /\ Ready(p)
  /\ req' = [req EXCEPT ![p] = [NoReq EXCEPT !.kind = "refresh",
                                               !.refresh_token = refresh_token]]
  /\ pc' = [pc EXCEPT ![p] = "done"]
  /\ IF refresh_token = NoRefresh THEN
       /\ resp' = [resp EXCEPT ![p] = Reply(400, "INVALID_INPUT")]
       /\ loc' = [loc EXCEPT ![p] = NoLoc]
       /\ UNCHANGED <<sessions, tokens>>
     ELSE IF findByRefreshToken(sessions, refresh_token, now) = {} THEN
       /\ resp' = [resp EXCEPT ![p] = Reply(401, "INVALID_REFRESH_TOKEN")]
       /\ loc' = [loc EXCEPT ![p] = NoLoc]
       /\ UNCHANGED <<sessions, tokens>>
     ELSE \E session \in findByRefreshToken(sessions, refresh_token, now) :
       LET accessToken == AccessToken(session.user_id, session.id, now) IN
       /\ sessions' = (sessions \ {session}) \cup {RefreshedRow(session, now)}
       /\ tokens' = tokens \cup {accessToken}
       /\ loc' = [loc EXCEPT ![p] = [NoLoc EXCEPT !.sessionId = session.id]]
       /\ resp' = [resp EXCEPT ![p] = [Reply(200, "OK") EXCEPT !.token = accessToken]]
  /\ UNCHANGED <<now, ticks, users, kv, nextUuid>>

(* --------------------------- specifications ---------------------------- *)
Alice == [name |-> "alice", spelling |-> "lower"]
\* the auth_hash the explored registrations submit
AliceHash == <<0, 1>>
AccessMs == parseDuration(AccessTtl) * 1000
\* clock advances explored by the sequential specification: to a quarter of
\* an hour before the first sessions expire, then by quarters of an hour
SessionSteps(k) == IF k = 1 THEN SessionTtlMs - AccessMs ELSE AccessMs

\* attempts recorded for an IP in the current window
Attempts(ip) ==
  IF KvHas(kv, IpKey(ip), now) THEN kv[IpKey(ip)].state.attemptCount ELSE 0

\* requests are explored while ids, tokens and attempts remain within the bound
Budget ==
  /\ nextUuid <= MaxIssued
  /\ Cardinality(tokens) < MaxIssued
  /\ Attempts("ip1") < MaxIssued

Forged == [NoToken EXCEPT !.sig = "forged"]
BearerTokens == tokens \cup {Forged}
Targets == {s.id : s \in sessions} \cup {Uuid(0)}
BogusRefresh == 0 - 1
RefreshTokens == {s.refresh_token : s \in sessions} \cup {BogusRefresh, NoRefresh}

\* the response has been sent and the request context is gone
Return(p) ==
  /\ UNCHANGED <<notes, web>>
  /\ pc[p] = "done"
  /\ pc' = [pc EXCEPT ![p] = "idle"]
  /\ req' = [req EXCEPT ![p] = NoReq]
  /\ loc' = [loc EXCEPT ![p] = NoLoc]
  /\ resp' = [resp EXCEPT ![p] = NoResp]
  /\ UNCHANGED <<now, ticks, users, sessions, tokens, kv, nextUuid>>

Idle == \A p \in Procs : pc[p] = "idle"

\* requests handled one at a time, each to completion
Next ==
  \/ Idle /\ Tick(SessionSteps(ticks + 1))
  \/ \E inviteOk \in BOOLEAN :
       Idle /\ Budget /\ Register(SeqProc, Alice, AliceHash, "S1", "ip1", inviteOk)
  \/ \E auth_hash \in Hashes :
       Idle /\ Budget /\ LoginStart(SeqProc, Alice, auth_hash, "ip1")
  \/ LoginFindActive(SeqProc, BOOLEAN)
  \/ LoginEvict(SeqProc, BOOLEAN)
  \/ LoginCreate(SeqProc, BOOLEAN)
  \/ \E token \in BearerTokens :
       Idle /\ AuthMiddleware(SeqProc, token)
  \/ AuthLegacyCreate(SeqProc)
  \/ Logout(SeqProc)
  \/ Heartbeat(SeqProc)
  \/ \E target \in Targets : RevokeSession(SeqProc, target)
  \/ \E refresh_token \in RefreshTokens :
       Idle /\ Budget /\ Refresh(SeqProc, refresh_token)
  \/ Return(SeqProc)

Spec == Init /\ [][Next]_vars

(* concurrent logins of one user with the correct auth_hash *)
\* the k-th session the user opened before the concurrent logins, one
\* key-value TTL apart
EarlierSession(k) ==
  NewSession(Uuid(k + 1), 1, k + 1, StartTime - (maxDevices + 1 - k) * LoginKvTtlSec * 1000)
EarlierToken(k) ==
  AccessToken(1, Uuid(k + 1), StartTime - (maxDevices + 1 - k) * LoginKvTtlSec * 1000)

InitConc ==
  /\ NoCache
  /\ notes = {}
  /\ now = StartTime
  /\ ticks = 0
  /\ users = {[id |-> 1, email |-> Alice, auth_hash |-> AliceHash, salt |-> "S1"]}
  /\ \E n \in 0..maxDevices :
       /\ sessions = {EarlierSession(k) : k \in 1..n}
       /\ tokens = {EarlierToken(k) : k \in 1..n} \cup
            {signJWT(1, NoJti, JwtExpiresIn,
                     StartTime - (maxDevices + 1) * LoginKvTtlSec * 1000)}
       /\ nextUuid = n + 2
  /\ kv = EmptyKv
  /\ pc = [p \in Procs |-> "idle"]
  /\ req = [p \in Procs |-> NoReq]
  /\ loc = [p \in Procs |-> NoLoc]
  /\ resp = [p \in Procs |-> NoResp]

\* the logins are numbered in their order of arrival
Arrived(p) == \A q \in Procs : q < p => pc[q] # "idle"

NextConc ==
  \E p \in Procs :
    \/ pc[p] = "idle" /\ Arrived(p) /\ LoginStart(p, Alice, AliceHash, "ip1")
    \/ LoginFindActive(p, {FALSE})
    \/ LoginEvict(p, {FALSE})
    \/ LoginCreate(p, {FALSE})

SpecConc == InitConc /\ [][NextConc]_vars

(* logins of one account from one IP, under either spelling and either hash *)
AliceMixed == [name |-> "alice", spelling |-> "mixed"]

\* the clock steps of the rate-limit schedules: the cooldown, then the rest
\* of the window
LimiterSteps(k) == IF k = 1 THEN CooldownMs ELSE WindowMs - CooldownMs

\* the IP counter after n attempts made at time t
PriorAttempts(n, t) ==
  IF n = 0 THEN EmptyKv
  ELSE KvPut(EmptyKv, IpKey("ip1"),
             [attemptCount |-> n, firstAttemptAt |-> t, lastAttemptAt |-> t],
             IpKvTtlSec, t)

\* Alice is registered; the IP has made no attempt yet, or registration
\* attempts that use up half of its limit
InitLogin ==
  /\ NoCache
  /\ notes = {}
  /\ now = StartTime
  /\ ticks = 0
  /\ users = {[id |-> 1, email |-> Alice, auth_hash |-> AliceHash, salt |-> "S1"]}
  /\ sessions = {}
  /\ tokens = {signJWT(1, NoJti, JwtExpiresIn, StartTime)}
  /\ \E n \in {0, IpLimit \div 2} : kv = PriorAttempts(n, StartTime)
  /\ nextUuid = 2
  /\ pc = [p \in Procs |-> "idle"]
  /\ req = [p \in Procs |-> NoReq]
  /\ loc = [p \in Procs |-> NoLoc]
  /\ resp = [p \in Procs |-> NoResp]

NextLogin ==
  \/ Idle /\ Tick(LimiterSteps(ticks + 1))
  \/ \E email \in {Alice, AliceMixed} : \E auth_hash \in Hashes :
       /\ Idle
       /\ nextUuid <= MaxIssued + 1 \/ auth_hash # AliceHash
       /\ LoginStart(SeqProc, email, auth_hash, "ip1")
  \/ LoginFindActive(SeqProc, {FALSE})
  \/ LoginEvict(SeqProc, {FALSE})
  \/ LoginCreate(SeqProc, {FALSE})
  \/ Return(SeqProc)

SpecLogin == InitLogin /\ [][NextLogin]_vars

(* ------------------ the RateLimiter called directly ------------------- *)
AdminKey(ip) == <<"admin", ip, "">>

checkAdminRateLimit(k, ip, t) ==
  IF ~KvHas(k, AdminKey(ip), t) THEN Allowed
  ELSE LET state == k[AdminKey(ip)].state IN
    IF state.banUntil # 0 /\ t < state.banUntil
      THEN Denied("ADMIN_BANNED", CeilDiv(state.banUntil - t, 1000))
    ELSE Allowed

recordAdminFailure(k, ip, t) ==
  LET key == AdminKey(ip)
      state ==
        IF ~KvHas(k, key, t) THEN FirstFailure(t)
        ELSE LET old == k[key].state IN
          IF t - old.firstFailureAt > WindowMs THEN FirstFailure(t)
          ELSE [old EXCEPT !.failureCount = old.failureCount + 1,
                           !.lastFailureAt = t,
                           !.banUntil = IF old.failureCount + 1 >= BanThreshold
                                        THEN t + BanMs ELSE old.banUntil]
  IN KvPut(k, key, state, LoginKvTtlSec, t)

\* a success that zeroes the count and keeps the rest of the state
recordAdminSuccessKeepsState(k, ip) ==
  IF AdminKey(ip) \in DOMAIN k
  THEN [k EXCEPT ![AdminKey(ip)].state.failureCount = 0] ELSE k

recordAdminSuccess(k, ip) == KvDelete(k, AdminKey(ip))

\* a check that deletes a state in the last hour of its time to live
checkPurges(k, key, t) ==
  IF key \in DOMAIN k /\ t >= k[key].expiration - WindowMs
  THEN KvDelete(k, key) ELSE k

\* the store after a check function has run: the check functions only call
\* kv.get
checkWrites(k, key, t) == k

\* one call of a check function
CallCheck(p, fn, email, ip) ==
  /\ UNCHANGED <<notes, web>>
  /\ pc[p] = "idle"
  /\ LET result == CASE fn = "checkRateLimit" -> checkRateLimit(kv, email, now)
                     [] fn = "checkIPRateLimit" -> checkIPRateLimit(kv, ip, now)
                     [] fn = "checkAdminRateLimit" -> checkAdminRateLimit(kv, ip, now)
         key == CASE fn = "checkRateLimit" -> LoginKey(email)
                  [] fn = "checkIPRateLimit" -> IpKey(ip)
                  [] fn = "checkAdminRateLimit" -> AdminKey(ip)
     IN /\ kv' = checkWrites(kv, key, now)
        /\ req' = [req EXCEPT ![p] = [NoReq EXCEPT !.kind = fn, !.email = email, !.ip = ip]]
        /\ resp' = [resp EXCEPT ![p] =
                      Reply(IF result.allowed THEN 200 ELSE 429, result.reason)]
  /\ UNCHANGED <<now, ticks, users, sessions, tokens, nextUuid, pc, loc>>

\* one call of a record function
CallRecord(p, fn, email, ip) ==
  /\ UNCHANGED <<notes, web>>
  /\ pc[p] = "idle"
  /\ kv' = CASE fn = "recordFailure" -> recordFailure(kv, email, now)
             [] fn = "recordSuccess" -> recordSuccess(kv, email)
             [] fn = "recordIPAttempt" -> recordIPAttempt(kv, ip, now)
             [] fn = "recordAdminFailure" -> recordAdminFailure(kv, ip, now)
             [] fn = "recordAdminSuccess" -> recordAdminSuccess(kv, ip)
  /\ loc' = [loc EXCEPT ![p].failedAt =
               CASE fn = "recordFailure" -> Append(@, now)
                 [] fn = "recordSuccess" -> <<>>
                 [] OTHER -> @]
  /\ req' = [req EXCEPT ![p] = [NoReq EXCEPT !.kind = fn, !.email = email, !.ip = ip]]
  /\ resp' = [resp EXCEPT ![p] = NoResp]
  /\ UNCHANGED <<now, ticks, users, sessions, tokens, nextUuid, pc>>

\* the clock steps between calls: an instant, the window, the ban
BanSteps == {1, WindowMs, BanMs}

\* the calls explored: one key at a time, counters up to one past their limit
CallBudget(fn) ==
  LET key == CASE fn \in {"checkRateLimit", "recordFailure", "recordSuccess"} -> LoginKey(Alice)
               [] fn \in {"checkIPRateLimit", "recordIPAttempt"} -> IpKey("ip1")
               [] OTHER -> AdminKey("ip1")
  IN /\ DOMAIN kv \subseteq {key}
     /\ fn = "recordIPAttempt" => Attempts("ip1") <= IpLimit
     /\ (fn \in {"recordFailure", "recordAdminFailure"} /\ key \in DOMAIN kv)
          => kv[key].state.failureCount <= BanThreshold
     /\ fn = "recordFailure" => Len(loc[SeqProc].failedAt) <= BanThreshold

NextLimiter ==
  \/ \E step \in BanSteps : Tick(step)
  \/ \E fn \in {"checkRateLimit", "checkIPRateLimit", "checkAdminRateLimit"} :
       CallBudget(fn) /\ CallCheck(SeqProc, fn, Alice, "ip1")
  \/ \E fn \in {"recordFailure", "recordSuccess", "recordIPAttempt",
                "recordAdminFailure", "recordAdminSuccess"} :
       CallBudget(fn) /\ CallRecord(SeqProc, fn, Alice, "ip1")

SpecLimiter == Init /\ [][NextLimiter]_vars

(* a burst of successful logins of one user from one IP *)
\* the clock steps of the burst: to just before the end of the window, then
\* just past it
BurstSteps(k) == IF k = 1 THEN WindowMs - 1 ELSE 2

NextBurst ==
  \/ Idle /\ Tick(BurstSteps(ticks + 1))
  \/ /\ Idle
     /\ nextUuid <= IpLimit + 3
     /\ LoginStart(SeqProc, Alice, AliceHash, "ip1")
  \/ LoginFindActive(SeqProc, {FALSE})
  \/ LoginEvict(SeqProc, {FALSE})
  \/ LoginCreate(SeqProc, {FALSE})
  \/ Return(SeqProc)

SpecBurst == InitConc /\ [][NextBurst]_vars

(* ------------------- what a login request is answered ------------------ *)
\* a verification whose error tells an unknown email from a wrong hash
authServiceLoginNamesUser(U, email, auth_hash) ==
  IF findByEmail(U, email) = {}
    THEN [ok |-> FALSE, message |-> "User not found"]
  ELSE IF \E u \in findByEmail(U, email) : ~constantTimeCompare(u.auth_hash, auth_hash)
    THEN [ok |-> FALSE, message |-> "Invalid email or password"]
  ELSE [ok |-> TRUE, message |-> ""]

\* AuthService.login for a well-formed email and auth_hash: the error it
\* throws, if any
authServiceLogin(U, email, auth_hash) ==
  IF findByEmail(U, email) = {}
    THEN [ok |-> FALSE, message |-> "Invalid email or password"]
  ELSE IF \E u \in findByEmail(U, email) : ~constantTimeCompare(u.auth_hash, auth_hash)
    THEN [ok |-> FALSE, message |-> "Invalid email or password"]
  ELSE [ok |-> TRUE, message |-> ""]

\* the login handler up to credential verification, as a function of the
\* users table and the store: its response and the store it leaves
LoginReply(U, k, email, auth_hash, ip, t) ==
  LET ipRateCheck == checkIPRateLimit(k, ip, t)
      rateCheck == checkRateLimit(k, email, t)
      kv1 == recordIPAttempt(k, ip, t)
      result == authServiceLogin(U, email, auth_hash)
  IN IF ~ipRateCheck.allowed THEN
       [status |-> 429, code |-> "IP_RATE_LIMIT", message |-> "",
        waitSeconds |-> ipRateCheck.waitSeconds, kv |-> k]
     ELSE IF ~rateCheck.allowed THEN
       [status |-> 429, code |-> rateCheck.reason, message |-> "",
        waitSeconds |-> rateCheck.waitSeconds, kv |-> k]
     ELSE IF ~result.ok THEN
       [status |-> 401, code |-> "LOGIN_FAILED", message |-> result.message,
        waitSeconds |-> 0, kv |-> recordFailure(kv1, email, t)]
     ELSE
       [status |-> 200, code |-> "", message |-> "",
        waitSeconds |-> 0, kv |-> recordSuccess(kv1, email)]

(* -------------------- register and getSalt, interleaved ---------------- *)
\* AuthService.getSalt; random is the draw generateSalt(32) would make
getSalt(U, email, random) ==
  IF findByEmail(U, email) = {} THEN random
  ELSE (CHOOSE u \in findByEmail(U, email) : TRUE).salt

\* POST /api/auth/salt with an email
GetSalt(p, email, random) ==
  /\ UNCHANGED <<notes, web>>
  /\ pc[p] = "idle"
  /\ req' = [req EXCEPT ![p] = [NoReq EXCEPT !.kind = "salt", !.email = email]]
  /\ resp' = [resp EXCEPT ![p] =
                [Reply(200, "OK") EXCEPT !.salt = getSalt(users, email, random)]]
  /\ pc' = [pc EXCEPT ![p] = "done"]
  /\ UNCHANGED <<now, ticks, users, sessions, tokens, kv, nextUuid, loc>>

\* a users table whose only key is id
CanInsertUserById(U, user) == \A u \in U : u.id # user.id

\* INSERT INTO users: id is the primary key and email is UNIQUE
CanInsertUser(U, user) == \A u \in U : u.id # user.id /\ u.email # user.email

\* POST /api/auth/register up to and including userRepo.emailExists
RegisterCheck(p, email, auth_hash, salt, ip, inviteOk) ==
  /\ UNCHANGED <<notes, web>>
  /\ pc[p] = "idle"
  /\ LET ipRateCheck == checkIPRateLimit(kv, ip, now)
         kv1 == recordIPAttempt(kv, ip, now)
     IN
     /\ req' = [req EXCEPT ![p] = [NoReq EXCEPT !.kind = "register",
                                     !.email = email, !.auth_hash = auth_hash,
                                     !.ip = ip, !.salt = salt]]
     /\ IF ~ipRateCheck.allowed THEN
          /\ resp' = [resp EXCEPT ![p] = Reply(429, "IP_RATE_LIMIT")]
          /\ pc' = [pc EXCEPT ![p] = "done"]
          /\ UNCHANGED kv
        ELSE IF ~inviteOk THEN
          /\ resp' = [resp EXCEPT ![p] = Reply(403, "INVITE_CODE_INVALID")]
          /\ pc' = [pc EXCEPT ![p] = "done"]
          /\ kv' = kv1
        ELSE IF emailExists(users, email) THEN
          /\ resp' = [resp EXCEPT ![p] = Reply(400, "REGISTRATION_FAILED")]
          /\ pc' = [pc EXCEPT ![p] = "done"]
          /\ kv' = kv1
        ELSE
          /\ resp' = [resp EXCEPT ![p] = NoResp]
          /\ pc' = [pc EXCEPT ![p] = "regCreate"]
          /\ kv' = kv1
  /\ UNCHANGED <<now, ticks, users, sessions, tokens, nextUuid, loc>>

\* userRepo.create, signJWT and the response of register
RegisterCreate(p) ==
  /\ UNCHANGED <<notes, web>>
  /\ pc[p] = "regCreate"
  /\ LET user == [id |-> nextUuid, email |-> toLowerCase(req[p].email),
                  auth_hash |-> req[p].auth_hash, salt |-> req[p].salt]
         token == signJWT(user.id, NoJti, JwtExpiresIn, now)
     IN IF CanInsertUser(users, user) THEN
          /\ users' = users \cup {user}
          /\ tokens' = tokens \cup {token}
          /\ resp' = [resp EXCEPT ![p] =
                        [Reply(200, "OK") EXCEPT !.token = token, !.salt = user.salt]]
        ELSE
          /\ resp' = [resp EXCEPT ![p] = Reply(400, "REGISTRATION_FAILED")]
          /\ UNCHANGED <<users, tokens>>
  /\ nextUuid' = nextUuid + 1
  /\ pc' = [pc EXCEPT ![p] = "done"]
  /\ UNCHANGED <<now, ticks, sessions, kv, req, loc>>

Callers == 1..NumCallers

\* the callers are numbered in their order of arrival
NextReg ==
  \E p \in Callers :
    \/ \E email \in {Alice, AliceMixed} : \E auth_hash \in Hashes : \E salt \in Salts :
         /\ \A q \in Callers : q < p => pc[q] # "idle"
         /\ RegisterCheck(p, email, auth_hash, salt, "ip1", TRUE)
    \/ RegisterCreate(p)
    \/ \E email \in {Alice, AliceMixed} : \E random \in Salts :
         /\ \A q \in Callers : q < p => pc[q] # "idle"
         /\ GetSalt(p, email, random)

SpecReg == Init /\ [][NextReg]_vars

(* register, then salt requests among logins, refreshes, logouts and revokes *)
NextSalt ==
  \/ \E email \in {Alice, AliceMixed} : \E salt \in Salts :
       Idle /\ Budget /\ Register(SeqProc, email, AliceHash, salt, "ip1", TRUE)
  \/ \E email \in {Alice, AliceMixed} : \E random \in Salts :
       Idle /\ GetSalt(SeqProc, email, random)
  \/ Idle /\ Budget /\ LoginStart(SeqProc, Alice, AliceHash, "ip1")
  \/ LoginFindActive(SeqProc, {FALSE})
  \/ LoginEvict(SeqProc, {FALSE})
  \/ LoginCreate(SeqProc, {FALSE})
  \/ \E token \in tokens :
       Idle /\ AuthMiddleware(SeqProc, token)
  \/ AuthLegacyCreate(SeqProc)
  \/ Logout(SeqProc)
  \/ \E target \in Targets : RevokeSession(SeqProc, target)
  \/ \E refresh_token \in RefreshTokens :
       Idle /\ Budget /\ Refresh(SeqProc, refresh_token)
  \/ Return(SeqProc)

SpecSalt == Init /\ [][NextSalt]_vars

(* a deployment whose JWT_SECRET is unset or left at the placeholder *)
Placeholder == "default-secret-change-in-production"
Unset == ""
BadSecrets == {Unset, Placeholder}

\* the constructor of AuthService throws on such a secret
SecretRejected(JWT_SECRET) == JWT_SECRET = Unset \/ JWT_SECRET = Placeholder

\* POST /api/auth/register: the constructor throws inside the handler's try,
\* after the IP attempt was recorded and the invite code accepted
RegisterUnconfigured(p, JWT_SECRET, email, auth_hash, salt, ip, inviteOk) ==
  /\ UNCHANGED <<notes, web>>
  /\ SecretRejected(JWT_SECRET)
  /\ Ready(p)
  /\ req' = [req EXCEPT ![p] = [NoReq EXCEPT !.kind = "register",
                                  !.email = email, !.auth_hash = auth_hash,
                                  !.ip = ip, !.salt = salt]]
  /\ loc' = [loc EXCEPT ![p] = NoLoc]
  /\ pc' = [pc EXCEPT ![p] = "done"]
  /\ IF ~checkIPRateLimit(kv, ip, now).allowed THEN
       /\ resp' = [resp EXCEPT ![p] = Reply(429, "IP_RATE_LIMIT")]
       /\ UNCHANGED kv
     ELSE IF ~inviteOk THEN
       /\ resp' = [resp EXCEPT ![p] = Reply(403, "INVITE_CODE_INVALID")]
       /\ kv' = recordIPAttempt(kv, ip, now)
     ELSE
       /\ resp' = [resp EXCEPT ![p] = Reply(400, "REGISTRATION_FAILED")]
       /\ kv' = recordIPAttempt(kv, ip, now)
  /\ UNCHANGED <<now, ticks, users, sessions, tokens, nextUuid>>

\* POST /api/auth/login: the constructor throws after the two limiter checks
\* and before recordIPAttempt; the outer catch answers
LoginUnconfigured(p, JWT_SECRET, email, auth_hash, ip) ==
  /\ UNCHANGED <<notes, web>>
  /\ SecretRejected(JWT_SECRET)
  /\ Ready(p)
  /\ req' = [req EXCEPT ![p] = [NoReq EXCEPT !.kind = "login",
                                  !.email = email, !.auth_hash = auth_hash, !.ip = ip]]
  /\ loc' = [loc EXCEPT ![p] = NoLoc]
  /\ pc' = [pc EXCEPT ![p] = "done"]
  /\ resp' = [resp EXCEPT ![p] =
       IF ~checkIPRateLimit(kv, ip, now).allowed THEN Reply(429, "IP_RATE_LIMIT")
       ELSE IF ~checkRateLimit(kv, email, now).allowed
         THEN Reply(429, checkRateLimit(kv, email, now).reason)
       ELSE Reply(500, "INTERNAL_ERROR")]
  /\ UNCHANGED <<now, ticks, users, sessions, tokens, kv, nextUuid>>

\* authMiddleware: the constructor throws before the try block is entered
AuthMiddlewareUnconfigured(p, JWT_SECRET, token) ==
  /\ UNCHANGED <<notes, web>>
  /\ SecretRejected(JWT_SECRET)
  /\ Ready(p)
  /\ req' = [req EXCEPT ![p] = [NoReq EXCEPT !.kind = "bearer", !.token = token]]
  /\ loc' = [loc EXCEPT ![p] = NoLoc]
  /\ pc' = [pc EXCEPT ![p] = "done"]
  /\ resp' = [resp EXCEPT ![p] =
       IF token = NoToken THEN Reply(401, "UNAUTHORIZED")
       ELSE Reply(500, "Internal Server Error")]
  /\ UNCHANGED <<now, ticks, users, sessions, tokens, kv, nextUuid>>

\* POST /api/auth/refresh: no AuthService is constructed; signJWT is handed
\* env.JWT_SECRET as it is, and importing an empty HMAC key throws
RefreshUnconfigured(p, JWT_SECRET, refresh_token) ==
  /\ UNCHANGED <<notes, web>>
  /\ SecretRejected(JWT_SECRET)
  /\ Ready(p)
  /\ req' = [req EXCEPT ![p] = [NoReq EXCEPT !.kind = "refresh",
                                               !.refresh_token = refresh_token]]
  /\ pc' = [pc EXCEPT ![p] = "done"]
  /\ IF refresh_token = NoRefresh THEN
       /\ resp' = [resp EXCEPT ![p] = Reply(400, "INVALID_INPUT")]
       /\ loc' = [loc EXCEPT ![p] = NoLoc]
       /\ UNCHANGED <<sessions, tokens>>
     ELSE IF findByRefreshToken(sessions, refresh_token, now) = {} THEN
       /\ resp' = [resp EXCEPT ![p] = Reply(401, "INVALID_REFRESH_TOKEN")]
       /\ loc' = [loc EXCEPT ![p] = NoLoc]
       /\ UNCHANGED <<sessions, tokens>>
     ELSE IF JWT_SECRET = Unset THEN
       /\ resp' = [resp EXCEPT ![p] = Reply(500, "REFRESH_FAILED")]
       /\ loc' = [loc EXCEPT ![p] = NoLoc]
       /\ UNCHANGED <<sessions, tokens>>
     ELSE \E session \in findByRefreshToken(sessions, refresh_token, now) :
       LET accessToken == [AccessToken(session.user_id, session.id, now)
                             EXCEPT !.sig = JWT_SECRET] IN
       /\ sessions' = (sessions \ {session}) \cup {RefreshedRow(session, now)}
       /\ tokens' = tokens \cup {accessToken}
       /\ loc' = [loc EXCEPT ![p] = [NoLoc EXCEPT !.sessionId = session.id]]
       /\ resp' = [resp EXCEPT ![p] = [Reply(200, "OK") EXCEPT !.token = accessToken]]
  /\ UNCHANGED <<now, ticks, users, kv, nextUuid>>

\* requests of every kind, one at a time, over a store that holds a user,
\* up to maxDevices sessions and the tokens issued for them
NextUnconfigured ==
  \/ Idle /\ Tick(SessionSteps(ticks + 1))
  \/ \E JWT_SECRET \in BadSecrets, inviteOk \in BOOLEAN :
       Idle /\ RegisterUnconfigured(SeqProc, JWT_SECRET, AliceMixed, AliceHash,
                                    "S1", "ip1", inviteOk)
  \/ \E JWT_SECRET \in BadSecrets, auth_hash \in Hashes :
       Idle /\ LoginUnconfigured(SeqProc, JWT_SECRET, Alice, auth_hash, "ip1")
  \/ \E JWT_SECRET \in BadSecrets, token \in BearerTokens \cup {NoToken} :
       Idle /\ AuthMiddlewareUnconfigured(SeqProc, JWT_SECRET, token)
  \/ \E JWT_SECRET \in BadSecrets, refresh_token \in RefreshTokens :
       Idle /\ Cardinality(tokens) <= MaxIssued + 1
            /\ RefreshUnconfigured(SeqProc, JWT_SECRET, refresh_token)
  \/ Return(SeqProc)

SpecUnconfigured == InitConc /\ [][NextUnconfigured]_vars

(* concurrent requests that present the same token without a jti *)
LegacyTokens == {token \in tokens : token.jti = NoJti}

\* the clock step of this schedule: half the access-token lifetime
LegacySteps == AccessMs \div 2

NextLegacy ==
  \/ Tick(LegacySteps)
  \/ \E p \in Procs :
       \/ \E token \in LegacyTokens : AuthMiddleware(p, token)
       \/ AuthLegacyCreate(p)
       \/ Heartbeat(p)
       \/ Return(p)

SpecLegacy == InitConc /\ [][NextLegacy]_vars

(* the token codec on the wire: three dot-separated segments *)
Secrets == {"k1", "k2"}
ClaimSets == {[user_id |-> 1, jti |-> NoJti], [user_id |-> 2, jti |-> Uuid(1)]}

\* base64url of a string, and its inverse
base64UrlEncode(str) == <<"b64", str>>
base64UrlDecode(str) == str[2]

\* HMAC-SHA256 of the message under the secret, taken to be collision-free
hmacSign(message, secret) == <<"hmac", secret, message[1], message[2]>>

\* signJWT as it builds the token string; the result is the sequence of the
\* segments that token.split('.') yields
signJWTWire(payload, secret, expiresIn, t) ==
  LET jwtPayload == [user_id |-> payload.user_id, jti |-> payload.jti,
                     iat |-> getCurrentTimestamp(t),
                     exp |-> getCurrentTimestamp(t) + parseDuration(expiresIn)]
      encodedHeader == base64UrlEncode("HS256.JWT")
      encodedPayload == base64UrlEncode(jwtPayload)
      message == <<encodedHeader, encodedPayload>>
      encodedSignature == base64UrlEncode(hmacSign(message, secret))
  IN <<encodedHeader, encodedPayload, encodedSignature>>

Thrown(error) == [ok |-> FALSE, error |-> error, payload |-> <<>>]

\* a verification that never compares the signature
verifyJWTUnsigned(parts, secret, t) ==
  IF Len(parts) # 3 THEN Thrown("Invalid JWT format")
  ELSE LET payload == base64UrlDecode(parts[2]) IN
       IF payload.exp # 0 /\ payload.exp < getCurrentTimestamp(t)
       THEN Thrown("JWT expired")
       ELSE [ok |-> TRUE, error |-> "", payload |-> payload]
\* verifyJWT on the segments of the token string
verifyJWTWire(parts, secret, t) ==
  IF Len(parts) # 3 THEN Thrown("Invalid JWT format")
  ELSE LET message == <<parts[1], parts[2]>>
           expectedEncodedSignature == base64UrlEncode(hmacSign(message, secret))
           payload == base64UrlDecode(parts[2])
       IN IF parts[3] # expectedEncodedSignature THEN Thrown("Invalid JWT signature")
          ELSE IF payload.exp # 0 /\ payload.exp < getCurrentTimestamp(t)
          THEN Thrown("JWT expired")
          ELSE [ok |-> TRUE, error |-> "", payload |-> payload]

\* AuthService.verifyToken: any failure becomes one error
verifyTokenLeaky(parts, secret, t) == verifyJWTWire(parts, secret, t)
verifyToken(parts, secret, t) ==
  IF verifyJWTWire(parts, secret, t).ok THEN verifyJWTWire(parts, secret, t)
  ELSE Thrown("Invalid or expired token")

\* ways a holder of a token can alter it without the secret
Alterations == {"truncated", "extended", "payload", "signature"}
Altered(parts, how) ==
  CASE how = "truncated" -> SubSeq(parts, 1, 2)
    [] how = "extended" -> Append(parts, base64UrlEncode("x"))
    [] how = "payload" ->
         [parts EXCEPT ![2] = base64UrlEncode(
            [base64UrlDecode(parts[2]) EXCEPT !.exp = @ + parseDuration(JwtExpiresIn)])]
    [] how = "signature" ->
         [parts EXCEPT ![3] = base64UrlEncode(
            hmacSign(<<parts[1], parts[2]>>, CHOOSE k \in Secrets : parts[3][2][2] # k))]

\* a token in flight: its segments, and as history the call that signed it
\* and the alteration made since
SignToken(p, payload, secret) ==
  /\ UNCHANGED <<notes, web>>
  /\ Ready(p)
  /\ LET token == [parts |-> signJWTWire(payload, secret, AccessTtl, now),
                   payload |-> payload, secret |-> secret, signedAt |-> now,
                   altered |-> "no"] IN
     /\ tokens' = tokens \cup {token}
     /\ req' = [req EXCEPT ![p] = [kind |-> "sign", token |-> token, secret |-> secret]]
     /\ resp' = [resp EXCEPT ![p] = [status |-> 200, code |-> "OK", message |-> "",
                                     result |-> token.parts]]
  /\ pc' = [pc EXCEPT ![p] = "done"]
  /\ UNCHANGED <<now, ticks, users, sessions, kv, nextUuid, loc>>

AlterToken(token, how) ==
  /\ UNCHANGED <<notes, web>>
  /\ token.altered = "no"
  /\ tokens' = tokens \cup {[token EXCEPT !.parts = Altered(token.parts, how),
                                           !.altered = how]}
  /\ UNCHANGED <<now, ticks, users, sessions, kv, nextUuid, pc, req, loc, resp>>

\* a call of verifyJWT
VerifyToken(p, token, secret) ==
  /\ UNCHANGED <<notes, web>>
  /\ Ready(p)
  /\ LET result == verifyJWTWire(token.parts, secret, now) IN
     /\ req' = [req EXCEPT ![p] = [kind |-> "verify", token |-> token,
                                   secret |-> secret, at |-> now]]
     /\ resp' = [resp EXCEPT ![p] = [status |-> IF result.ok THEN 200 ELSE 401,
                                     code |-> "", message |-> result.error,
                                     result |-> result.payload]]
  /\ pc' = [pc EXCEPT ![p] = "done"]
  /\ UNCHANGED <<now, ticks, users, sessions, tokens, kv, nextUuid, loc>>

\* authMiddleware up to the end of token verification, on the token string
AuthMiddlewareWire(p, token, JWT_SECRET) ==
  /\ UNCHANGED <<notes, web>>
  /\ Ready(p)
  /\ LET user == verifyToken(token.parts, JWT_SECRET, now) IN
     /\ req' = [req EXCEPT ![p] = [kind |-> "bearer", token |-> token,
                                   secret |-> JWT_SECRET, at |-> now]]
     /\ resp' = [resp EXCEPT ![p] =
          IF user.ok
          THEN [status |-> 0, code |-> "", message |-> "", result |-> user.payload]
          ELSE [status |-> 401, code |-> "UNAUTHORIZED",
                message |-> "Invalid or expired token", result |-> user.error]]
  /\ pc' = [pc EXCEPT ![p] = "done"]
  /\ UNCHANGED <<now, ticks, users, sessions, tokens, kv, nextUuid, loc>>

\* the clock reaches a token's exp second, then passes it
CodecSteps == {AccessMs, 1000}

InitCodec ==
  /\ NoCache
  /\ notes = {}
  /\ now = StartTime
  /\ ticks = 0
  /\ users = {}
  /\ sessions = {}
  /\ tokens = {}
  /\ kv = EmptyKv
  /\ nextUuid = 1
  /\ pc = [p \in Procs |-> "idle"]
  /\ req = [p \in Procs |-> NoReq]
  /\ loc = [p \in Procs |-> NoLoc]
  /\ resp = [p \in Procs |-> NoResp]

NextCodec ==
  \/ \E step \in CodecSteps : Idle /\ Tick(step)
  \/ \E payload \in ClaimSets, secret \in Secrets :
       Idle /\ tokens = {} /\ SignToken(SeqProc, payload, secret)
  \/ \E token \in tokens, how \in Alterations :
       Idle /\ Cardinality(tokens) < MaxIssued /\ AlterToken(token, how)
  \/ \E token \in tokens, secret \in Secrets :
       Idle /\ VerifyToken(SeqProc, token, secret)
  \/ \E token \in tokens, secret \in Secrets :
       Idle /\ AuthMiddlewareWire(SeqProc, token, secret)
  \/ Return(SeqProc)

SpecCodec == InitCodec /\ [][NextCodec]_vars

(* two users and their devices *)
Bob == [name |-> "bob", spelling |-> "lower"]

\* DELETE /api/admin/users/:userId
AdminDeleteUser(p, userId) ==
  /\ UNCHANGED web
  /\ pc[p] = "handler"
  /\ req' = [req EXCEPT ![p].kind = "adminDeleteUser"]
  /\ notes' = {n \in notes : n.user_id # userId}
  /\ sessions' = {s \in sessions : s.user_id # userId}
  /\ users' = {u \in users : u.id # userId}
  /\ resp' = [resp EXCEPT ![p] =
       IF users' = users THEN Reply(404, "USER_NOT_FOUND") ELSE Reply(200, "OK")]
  /\ pc' = [pc EXCEPT ![p] = "done"]
  /\ UNCHANGED <<now, ticks, tokens, kv, nextUuid, loc>>

\* POST /api/admin/cleanup; passwordOk: the body carries ADMIN_PASSWORD
AdminCleanup(p, passwordOk) ==
  /\ UNCHANGED <<notes, web>>
  /\ pc[p] = "handler"
  /\ req' = [req EXCEPT ![p].kind = IF passwordOk THEN "adminCleanup" ELSE "cleanup"]
  /\ IF ~passwordOk THEN
       /\ resp' = [resp EXCEPT ![p] = Reply(403, "INVALID_PASSWORD")]
       /\ UNCHANGED sessions
     ELSE
       /\ sessions' = {s \in sessions : ~(s.expires_at < now) /\ s.is_active # 0}
       /\ resp' = [resp EXCEPT ![p] = Reply(200, "OK")]
  /\ pc' = [pc EXCEPT ![p] = "done"]
  /\ UNCHANGED <<now, ticks, users, tokens, kv, nextUuid, loc>>

\* the k-th device: the odd ones are Alice's, the even ones Bob's, opened a
\* quarter of an hour apart, the last one a quarter of an hour ago
Owner(k) == 2 - (k % 2)
DeviceSession(k, n) ==
  NewSession(Uuid(k + 2), Owner(k), k + 2, StartTime - (n + 1 - k) * AccessMs)
DeviceToken(k) == AccessToken(Owner(k), Uuid(k + 2), StartTime)

InitDevices ==
  /\ NoCache
  /\ notes = {}
  /\ now = StartTime
  /\ ticks = 0
  /\ users = {[id |-> 1, email |-> Alice, auth_hash |-> AliceHash, salt |-> "S1"],
              [id |-> 2, email |-> Bob, auth_hash |-> AliceHash, salt |-> "S2"]}
  /\ \E n \in 2..(maxDevices + 1) :
       /\ sessions = {DeviceSession(k, n) : k \in 1..n}
       /\ tokens = {DeviceToken(k) : k \in 1..n}
       /\ nextUuid = n + 3
  /\ kv = EmptyKv
  /\ pc = [p \in Procs |-> "idle"]
  /\ req = [p \in Procs |-> NoReq]
  /\ loc = [p \in Procs |-> NoLoc]
  /\ resp = [p \in Procs |-> NoResp]

\* the clock steps of this schedule: thirds of the access-token lifetime
DeviceSteps == AccessMs \div 3

NextDevices ==
  \/ Idle /\ Tick(DeviceSteps)
  \/ \E token \in tokens : Idle /\ AuthMiddleware(SeqProc, token)
  \/ Logout(SeqProc)
  \/ Heartbeat(SeqProc)
  \/ \E target \in Targets : RevokeSession(SeqProc, target)
  \/ \E userId \in {u.id : u \in users} \cup {0} : AdminDeleteUser(SeqProc, userId)
  \/ \E passwordOk \in BOOLEAN : AdminCleanup(SeqProc, passwordOk)
  \/ Return(SeqProc)

SpecDevices == InitDevices /\ [][NextDevices]_vars

(* notes and passwords: updates guarded by a version number *)
Tables == {"notes", "passwords"}
UpdateLimit == 2
UpdateWindowMs == 60000
UpdateKvTtlSec == 60

\* a row of the notes or of the passwords table
NoteRow(table, id, user_id, version, encrypted_content, t) ==
  [table |-> table, id |-> id, user_id |-> user_id, version |-> version,
   encrypted_content |-> encrypted_content, updated_at |-> getCurrentTimestamp(t)]

\* an UPDATE whose WHERE clause leaves the version out
updateAnyVersion(N, table, id, userId, input, t) ==
  {IF n.table = table /\ n.id = id /\ n.user_id = userId
   THEN [n EXCEPT !.encrypted_content = input.encrypted_content,
                  !.version = @ + 1,
                  !.updated_at = getCurrentTimestamp(t)]
   ELSE n : n \in N}
\* UPDATE ... SET ..., version = version + 1, updated_at = ?
\* WHERE id = ? AND user_id = ? AND version = ?
update(N, table, id, userId, input, t) ==
  {IF n.table = table /\ n.id = id /\ n.user_id = userId /\ n.version = input.version
   THEN [n EXCEPT !.encrypted_content = input.encrypted_content,
                  !.version = @ + 1,
                  !.updated_at = getCurrentTimestamp(t)]
   ELSE n : n \in N}

UpdateKey(table, userId) ==
  <<IF table = "notes" THEN "note_update" ELSE "password_update", userId, "">>

\* PUT /api/notes/:id and PUT /api/passwords/:id up to the repository call:
\* the per-user rate limit, then input validation
UpdateStart(p, table, id, input) ==
  /\ UNCHANGED web
  /\ pc[p] = "handler"
  /\ req' = [req EXCEPT ![p] = [kind |-> "update", token |-> req[p].token,
                                table |-> table, id |-> id, input |-> input]]
  /\ LET key == UpdateKey(table, loc[p].user)
         has == KvHas(kv, key, now)
         data == kv[key].state
         secondsLeft == CeilDiv(data.resetTime - now, 1000)
     IN IF has /\ now < data.resetTime /\ data.count >= UpdateLimit THEN
          /\ resp' = [resp EXCEPT ![p] = Reply(429, "UPDATE_RATE_LIMIT")]
          /\ pc' = [pc EXCEPT ![p] = "done"]
          /\ UNCHANGED kv
        ELSE
          /\ kv' = IF has /\ now < data.resetTime
                   THEN KvPut(kv, key, [count |-> data.count + 1,
                                        resetTime |-> data.resetTime],
                              IF secondsLeft > UpdateKvTtlSec THEN secondsLeft
                              ELSE UpdateKvTtlSec, now)
                   ELSE KvPut(kv, key, [count |-> 1, resetTime |-> now + UpdateWindowMs],
                              UpdateKvTtlSec, now)
          /\ IF input.encrypted_content = "" THEN
               /\ resp' = [resp EXCEPT ![p] = Reply(400, "FIELD_REQUIRED")]
               /\ pc' = [pc EXCEPT ![p] = "done"]
             ELSE
               /\ resp' = [resp EXCEPT ![p] = NoResp]
               /\ pc' = [pc EXCEPT ![p] = "update"]
  /\ UNCHANGED <<now, ticks, users, sessions, tokens, nextUuid, loc, notes>>

\* repository.update: the UPDATE statement and the check of meta.changes
UpdateRun(p) ==
  /\ UNCHANGED web
  /\ pc[p] = "update"
  /\ notes' = update(notes, req[p].table, req[p].id, loc[p].user, req[p].input, now)
  /\ IF notes' = notes THEN
       /\ resp' = [resp EXCEPT ![p] = Reply(409, "VERSION_CONFLICT")]
       /\ pc' = [pc EXCEPT ![p] = "done"]
     ELSE
       /\ resp' = [resp EXCEPT ![p] = NoResp]
       /\ pc' = [pc EXCEPT ![p] = "fetch"]
  /\ UNCHANGED <<now, ticks, users, sessions, tokens, kv, nextUuid, req, loc>>

\* return this.findById(id, userId), and the 200 response that carries it
UpdateFetch(p) ==
  /\ UNCHANGED web
  /\ pc[p] = "fetch"
  /\ resp' = [resp EXCEPT ![p] =
       [Reply(200, "OK") EXCEPT !.token =
          {n \in notes : /\ n.table = req[p].table /\ n.id = req[p].id
                         /\ n.user_id = loc[p].user}]]
  /\ pc' = [pc EXCEPT ![p] = "done"]
  /\ UNCHANGED <<now, ticks, users, sessions, tokens, kv, nextUuid, req, loc, notes>>

\* the update inputs explored: the stored version and the one after it, with
\* and without content
UpdateInputs == [version : 1..2, encrypted_content : {"", "c1"}]
\* the request contexts that send them
Writers == {1, 2}

InitNotes ==
  /\ NoCache
  /\ notes = {NoteRow(table, 1, 1, 1, "c0", StartTime) : table \in Tables}
               \cup {NoteRow("notes", 2, 2, 1, "c0", StartTime)}
  /\ now = StartTime
  /\ ticks = 0
  /\ users = {[id |-> 1, email |-> Alice, auth_hash |-> AliceHash, salt |-> "S1"],
              [id |-> 2, email |-> Bob, auth_hash |-> AliceHash, salt |-> "S2"]}
  /\ sessions = {DeviceSession(k, 2) : k \in 1..2}
  /\ tokens = {DeviceToken(k) : k \in 1..2}
  /\ nextUuid = 5
  /\ \E saved \in 0..1 :
       kv = IF saved = 0 THEN EmptyKv
            ELSE KvPut(EmptyKv, UpdateKey("notes", 1),
                       [count |-> saved, resetTime |-> StartTime + UpdateWindowMs],
                       UpdateKvTtlSec, StartTime)
  /\ pc = [p \in Procs |-> "idle"]
  /\ req = [p \in Procs |-> NoReq]
  /\ loc = [p \in Procs |-> NoLoc]
  /\ resp = [p \in Procs |-> NoResp]

\* two concurrent updates, the first user having saved a note at most once
\* in the current minute
NextNotes ==
  \/ Tick(UpdateWindowMs)
  \/ \E p \in Writers :
       \/ \E token \in tokens : pc[p] = "idle" /\ AuthMiddleware(p, token)
       \/ \E table \in Tables, id \in 1..2, input \in UpdateInputs :
            UpdateStart(p, table, id, input)
       \/ UpdateRun(p)
       \/ UpdateFetch(p)

SpecNotes == InitNotes /\ [][NextNotes]_vars

(* concurrent logins of two users whose device lists are full *)
\* Bob's k-th session, opened before any of Alice's
BobSession(k) ==
  NewSession(Uuid(k + 5), 2, k + 5, StartTime - (2 * maxDevices + 1 - k) * LoginKvTtlSec * 1000)
\* sessions of Alice that are older than her active ones: one she logged out
\* of, and one that has expired
LoggedOut == [NewSession(Uuid(9), 1, 9, StartTime - (maxDevices + 1) * LoginKvTtlSec * 1000)
                EXCEPT !.is_active = 0]
Expired == NewSession(Uuid(10), 1, 10, StartTime - SessionTtlMs - LoginKvTtlSec * 1000)

InitEvict ==
  /\ NoCache
  /\ notes = {}
  /\ now = StartTime
  /\ ticks = 0
  /\ users = {[id |-> 1, email |-> Alice, auth_hash |-> AliceHash, salt |-> "S1"],
              [id |-> 2, email |-> Bob, auth_hash |-> AliceHash, salt |-> "S2"]}
  /\ \E stale \in SUBSET {LoggedOut, Expired} :
       sessions = {EarlierSession(k) : k \in 1..maxDevices}
                    \cup {BobSession(k) : k \in 1..maxDevices} \cup stale
  /\ tokens = {}
  /\ nextUuid = 11
  /\ kv = EmptyKv
  /\ pc = [p \in Procs |-> "idle"]
  /\ req = [p \in Procs |-> NoReq]
  /\ loc = [p \in Procs |-> NoLoc]
  /\ resp = [p \in Procs |-> NoResp]

NextEvict ==
  \E p \in Callers :
    \/ \E email \in {Alice, Bob} :
         pc[p] = "idle" /\ LoginStart(p, email, AliceHash, "ip1")
    \/ LoginFindActive(p, {FALSE})
    \/ LoginEvict(p, {FALSE})
    \/ LoginCreate(p, {FALSE})

SpecEvict == InitEvict /\ [][NextEvict]_vars

(* two logins of one user race, then a further login runs on its own *)
Racers == {2, 3}

\* SeqProc arrives once both racers have been answered, and nothing else
\* arrives after it
NextAfterRace ==
  \/ \E p \in Racers :
       \/ pc[p] = "idle" /\ pc[SeqProc] = "idle"
            /\ LoginStart(p, Alice, AliceHash, "ip1")
       \/ LoginFindActive(p, {FALSE})
       \/ LoginEvict(p, {FALSE})
       \/ LoginCreate(p, {FALSE})
  \/ /\ pc[SeqProc] = "idle"
     /\ \A p \in Racers : pc[p] = "done"
     /\ LoginStart(SeqProc, Alice, AliceHash, "ip1")
  \/ LoginFindActive(SeqProc, {FALSE})
  \/ LoginEvict(SeqProc, {FALSE})
  \/ LoginCreate(SeqProc, {FALSE})

SpecAfterRace == InitConc /\ [][NextAfterRace]_vars

(* ------------- revocation followed by requests and cleanups ------------ *)
\* two clients whose requests are handled one at a time; a client keeps the
\* response to its last request until it sends the next
Clients == {1, 2}

NextRevoked ==
  \/ Tick(LegacySteps)
  \/ \E p \in Clients :
       \/ \E token \in tokens : Quiet /\ AuthMiddleware(p, token)
       \/ AuthLegacyCreate(p)
       \/ Logout(p)
       \/ Heartbeat(p)
       \/ \E target \in Targets : RevokeSession(p, target)
       \/ \E passwordOk \in BOOLEAN : AdminCleanup(p, passwordOk)

SpecRevoked == InitConc /\ [][NextRevoked]_vars

(* -------------- failed logins under two spellings of an email ---------- *)
\* logins for Alice's address spelled either way, a cooldown apart
NextFold ==
  \/ Idle /\ Tick(CooldownMs)
  \/ \E email \in {Alice, AliceMixed} : \E auth_hash \in Hashes :
       /\ Idle
       /\ nextUuid <= MaxIssued + 1 \/ auth_hash # AliceHash
       /\ LoginStart(SeqProc, email, auth_hash, "ip1")
  \/ LoginFindActive(SeqProc, {FALSE})
  \/ LoginEvict(SeqProc, {FALSE})
  \/ LoginCreate(SeqProc, {FALSE})
  \/ Return(SeqProc)

SpecFold == InitLogin /\ [][NextFold]_vars

(* ------------------- recordFailure calls that interleave --------------- *)
\* recordFailure up to its await of kv.get: the call holds what it read
RecordFailureGet(p, email) ==
  /\ UNCHANGED <<notes, web>>
  /\ pc[p] = "idle"
  /\ req' = [req EXCEPT ![p] =
               [kind |-> "recordFailure", email |-> email,
                stateJson |-> [x \in DOMAIN kv \cap {LoginKey(email)} |-> kv[x]]]]
  /\ pc' = [pc EXCEPT ![p] = "put"]
  /\ UNCHANGED <<now, ticks, users, sessions, tokens, kv, nextUuid, loc, resp>>

\* recordFailure from the value it read to its kv.put
RecordFailurePut(p) ==
  /\ UNCHANGED <<notes, web>>
  /\ pc[p] = "put"
  /\ LET key == LoginKey(req[p].email)
         state == recordFailure(req[p].stateJson, req[p].email, now)[key].state
     IN kv' = KvPut(kv, key, state, LoginKvTtlSec, now)
  /\ loc' = [loc EXCEPT ![p].nFailure = @ + 1, ![p].failedAt = Append(@, now)]
  /\ pc' = [pc EXCEPT ![p] = "idle"]
  /\ UNCHANGED <<now, ticks, users, sessions, tokens, nextUuid, req, resp>>

RECURSIVE CompletedBy(_)
CompletedBy(n) == IF n = 0 THEN 0 ELSE loc[n].nFailure + CompletedBy(n - 1)
\* the recordFailure calls that have returned, and those begun
Completed == CompletedBy(NumLogins)
Begun == Completed + Cardinality({p \in Procs : pc[p] = "put"})

\* failed logins of one email recorded by requests that run concurrently,
\* one more of them than the ban needs
NextInterleaved ==
  \E p \in Procs :
    \/ Begun <= BanThreshold /\ RecordFailureGet(p, Alice)
    \/ RecordFailurePut(p)

SpecInterleaved == Init /\ [][NextInterleaved]_vars

(* ---------------- one IP counter for three kinds of request ------------ *)
\* POST /api/admin/verify that neither reads nor counts the IP's attempts
AdminVerifyOwnCounter(p, adminPassword, password, ip) ==
  /\ UNCHANGED <<notes, web>>
  /\ pc[p] = "handler"
  /\ LET rateCheck == checkAdminRateLimit(kv, ip, now) IN
     /\ req' = [req EXCEPT ![p].kind = "adminVerify", ![p].ip = ip]
     /\ IF adminPassword = "" THEN
          /\ resp' = [resp EXCEPT ![p] = Reply(500, "ADMIN_NOT_CONFIGURED")]
          /\ UNCHANGED <<kv, loc>>
        ELSE IF ~rateCheck.allowed THEN
          /\ resp' = [resp EXCEPT ![p] = Reply(429, "ADMIN_BANNED")]
          /\ UNCHANGED <<kv, loc>>
        ELSE IF password # adminPassword THEN
          /\ kv' = recordAdminFailure(kv, ip, now)
          /\ loc' = [loc EXCEPT ![p].verified = TRUE]
          /\ resp' = [resp EXCEPT ![p] = Reply(403, "INVALID_PASSWORD")]
        ELSE
          /\ kv' = recordAdminSuccess(kv, ip)
          /\ loc' = [loc EXCEPT ![p].verified = TRUE]
          /\ resp' = [resp EXCEPT ![p] = Reply(200, "OK")]
  /\ pc' = [pc EXCEPT ![p] = "done"]
  /\ UNCHANGED <<now, ticks, users, sessions, tokens, nextUuid>>

\* POST /api/admin/verify, after authMiddleware; verified records that the
\* password was compared
AdminVerify(p, adminPassword, password, ip) ==
  /\ UNCHANGED <<notes, web>>
  /\ pc[p] = "handler"
  /\ LET ipRateCheck == checkIPRateLimit(kv, ip, now)
         rateCheck == checkAdminRateLimit(kv, ip, now)
         kv1 == recordIPAttempt(kv, ip, now)
     IN
     /\ req' = [req EXCEPT ![p].kind = "adminVerify", ![p].ip = ip]
     /\ IF adminPassword = "" THEN
          /\ resp' = [resp EXCEPT ![p] = Reply(500, "ADMIN_NOT_CONFIGURED")]
          /\ UNCHANGED <<kv, loc>>
        ELSE IF ~ipRateCheck.allowed THEN
          /\ resp' = [resp EXCEPT ![p] = Reply(429, "IP_RATE_LIMIT")]
          /\ UNCHANGED <<kv, loc>>
        ELSE IF ~rateCheck.allowed THEN
          /\ resp' = [resp EXCEPT ![p] = Reply(429, "ADMIN_BANNED")]
          /\ UNCHANGED <<kv, loc>>
        ELSE IF password # adminPassword THEN
          /\ kv' = recordAdminFailure(kv1, ip, now)
          /\ loc' = [loc EXCEPT ![p].verified = TRUE]
          /\ resp' = [resp EXCEPT ![p] = Reply(403, "INVALID_PASSWORD")]
        ELSE
          /\ kv' = recordAdminSuccess(kv1, ip)
          /\ loc' = [loc EXCEPT ![p].verified = TRUE]
          /\ resp' = [resp EXCEPT ![p] = Reply(200, "OK")]
  /\ pc' = [pc EXCEPT ![p] = "done"]
  /\ UNCHANGED <<now, ticks, users, sessions, tokens, nextUuid>>

\* ADMIN_PASSWORD as deployed, and the passwords a request can carry
AdminPasswords == {"", "admin"}
Passwords == {"admin", "wrong"}

\* registrations, logins and admin-password verifications from one IP that
\* has made no attempt yet or half of its limit; the clock moves once the
\* counter is full
NextShared ==
  \/ Idle /\ Attempts("ip1") >= IpLimit /\ Tick(BurstSteps(ticks + 1))
  \/ /\ Idle
     /\ Attempts("ip1") <= IpLimit
     /\ Register(SeqProc, Bob, AliceHash, "S2", "ip1", TRUE)
  \/ /\ Idle
     /\ Attempts("ip1") <= IpLimit
     /\ nextUuid <= MaxIssued
     /\ LoginStart(SeqProc, Alice, AliceHash, "ip1")
  \/ LoginFindActive(SeqProc, {FALSE})
  \/ LoginEvict(SeqProc, {FALSE})
  \/ LoginCreate(SeqProc, {FALSE})
  \/ \E token \in {t \in LegacyTokens : t.user_id = 1} :
       Idle /\ AuthMiddleware(SeqProc, token)
  \/ AuthLegacyCreate(SeqProc)
  \/ \E adminPassword \in AdminPasswords : \E password \in Passwords :
       /\ Attempts("ip1") <= IpLimit
       /\ AdminVerify(SeqProc, adminPassword, password, "ip1")
  \/ Return(SeqProc)

SpecShared == InitLogin /\ [][NextShared]_vars

(* ---------------- admin-password verification from one IP -------------- *)
\* verifications with the right and a wrong password, one at a time, an
\* instant, the window or the ban apart, from an IP that has made no attempt
\* yet or half of its limit
NextAdmin ==
  \/ \E step \in BanSteps : Idle /\ Tick(step)
  \/ \E token \in {t \in LegacyTokens : t.user_id = 1} :
       Idle /\ AuthMiddleware(SeqProc, token)
  \/ AuthLegacyCreate(SeqProc)
  \/ \E adminPassword \in AdminPasswords : \E password \in Passwords :
       /\ Attempts("ip1") <= IpLimit
       /\ AdminVerify(SeqProc, adminPassword, password, "ip1")
  \/ Return(SeqProc)

SpecAdmin == InitLogin /\ [][NextAdmin]_vars

(* ------------------------ the web client's LRUCache -------------------- *)
\* the largest maxSize a cache is constructed with, and the number of uses
\* (get of a present key, set) followed
MaxSize == 2
MaxUses == 4

CacheKeys == {"k1", "k2", "k3"}
CacheValues == {"v1", "v2"}

\* Map.has, Map.get, Map.delete on the entries in iteration order
has(c, key) == \E i \in 1..Len(c) : c[i].key = key
EntryOf(c, key) == c[CHOOSE i \in 1..Len(c) : c[i].key = key]
delete(c, key) == LET Others(e) == e.key # key IN SelectSeq(c, Others)
clear(c) == <<>>
size(c) == Len(c)
capacity(m) == m

\* a get that leaves the entry where it is
getInPlace(c, key) == c

\* the entries after get(key): a present key moves to the end
get(c, key) ==
  IF ~has(c, key) THEN c
  ELSE LET value == EntryOf(c, key).value IN
       Append(delete(c, key), [key |-> key, value |-> value])

\* the entries after set(key, value)
set(c, m, key, value) ==
  LET c1 == IF has(c, key) THEN delete(c, key) ELSE c
      c2 == IF size(c1) >= m
            THEN (IF c1 # <<>> THEN delete(c1, Head(c1).key) ELSE c1)
            ELSE c1
  IN Append(c2, [key |-> key, value |-> value])

CacheGet(key) ==
  /\ has(cache, key) => Len(used) < MaxUses
  /\ cache' = get(cache, key)
  /\ used' = IF has(cache, key) THEN Append(used, key) ELSE used
  /\ ret' = [op |-> "get", key |-> key,
             value |-> IF has(cache, key) THEN EntryOf(cache, key).value ELSE ""]
  /\ UNCHANGED <<now, ticks, users, sessions, tokens, kv, nextUuid, pc, req, loc,
                 resp, notes, maxSize>>

CacheSet(key, value) ==
  /\ Len(used) < MaxUses
  /\ cache' = set(cache, maxSize, key, value)
  /\ used' = Append(used, key)
  /\ ret' = [op |-> "set", key |-> key, value |-> value]
  /\ UNCHANGED <<now, ticks, users, sessions, tokens, kv, nextUuid, pc, req, loc,
                 resp, notes, maxSize>>

CacheHas(key) ==
  /\ ret' = [op |-> "has", key |-> key,
             value |-> IF has(cache, key) THEN "true" ELSE "false"]
  /\ UNCHANGED <<now, ticks, users, sessions, tokens, kv, nextUuid, pc, req, loc,
                 resp, notes, maxSize, cache, used>>

CacheDelete(key) ==
  /\ cache' = delete(cache, key)
  /\ ret' = [op |-> "delete", key |-> key, value |-> ""]
  /\ UNCHANGED <<now, ticks, users, sessions, tokens, kv, nextUuid, pc, req, loc,
                 resp, notes, maxSize, used>>

CacheClear ==
  /\ cache' = clear(cache)
  /\ ret' = [op |-> "clear", key |-> "", value |-> ""]
  /\ UNCHANGED <<now, ticks, users, sessions, tokens, kv, nextUuid, pc, req, loc,
                 resp, notes, maxSize, used>>

\* new LRUCache(maxSize) for a maxSize from 0 up
InitCache ==
  /\ maxSize \in 0..MaxSize
  /\ cache = <<>>
  /\ ret = NoCall
  /\ used = <<>>
  /\ notes = {}
  /\ now = StartTime
  /\ ticks = 0
  /\ users = {}
  /\ sessions = {}
  /\ tokens = {}
  /\ kv = EmptyKv
  /\ nextUuid = 1
  /\ pc = [p \in Procs |-> "idle"]
  /\ req = [p \in Procs |-> NoReq]
  /\ loc = [p \in Procs |-> NoLoc]
  /\ resp = [p \in Procs |-> NoResp]

NextCache ==
  \/ \E key \in CacheKeys :
       \/ CacheGet(key)
       \/ \E value \in CacheValues : CacheSet(key, value)
       \/ CacheHas(key)
       \/ CacheDelete(key)
  \/ CacheClear

SpecCache == InitCache /\ [][NextCache]_vars

(* ------------------------------ properties ----------------------------- *)
AllDone == \A p \in Procs : pc[p] = "done"
EvictedBy(p) == loc[p].revokedSession
Deactivated == {s.id : s \in {r \in sessions : r.is_active = 0}}
\* the session a token is bound to: its jti, or the id derived for a token
\* that has none
BoundSession(token) ==
  IF token.jti = NoJti THEN LegacyId(token.user_id, token.exp) ELSE token.jti

\* C1: when N >= 4 concurrent logins of one user with the correct auth_hash
\* have all completed, findActive(user) holds exactly 3 sessions and the
\* logins have evicted exactly the sessions in excess of 3 (N - 3 of them
\* when the user started with none), each a distinct session.
C1_ConcurrentLoginsLeaveThree ==
  AllDone =>
    /\ Cardinality(findActive(sessions, 1, now)) = 3
    /\ Cardinality(UNION {EvictedBy(p) : p \in Procs}) = Cardinality(sessions) - 3
    /\ Cardinality(Deactivated) = Cardinality(sessions) - 3

\* C2: with requests handled one at a time, every user has at most 3
\* sessions that are active and unexpired.
C2_AtMostThreeActive ==
  \A u \in users :
    Cardinality({s \in sessions :
      s.user_id = u.id /\ s.is_active = 1 /\ s.expires_at > now}) <= 3

\* C3: every login deactivates at most one session, every step changes
\* is_active on at most one row, and no session is evicted by two logins.
C3_AtMostOneEvictionPerLogin ==
  /\ [](\A p \in Procs :
          /\ Cardinality(EvictedBy(p)) <= 1
          /\ EvictedBy(p) \subseteq Deactivated
          /\ \A q \in Procs \ {p} : EvictedBy(p) \cap EvictedBy(q) = {})
  /\ [][Cardinality({s \in sessions :
          \E r \in sessions' : r.id = s.id /\ r.is_active # s.is_active}) <= 1]_vars

\* C3 witness: two different logins have each evicted a session.
C3_Witness ==
  \E p \in Procs : \E q \in Procs \ {p} :
    EvictedBy(p) # {} /\ EvictedBy(q) # {} /\ pc[p] = "done" /\ pc[q] = "done"

\* C4: a request the bearer-auth middleware hands to a handler is bound to
\* a session row that exists, has is_active = 1 and has now < expires_at.
C4_HandlerSessionIsLive ==
  \A p \in Procs :
    pc[p] = "handler" =>
      \E s \in sessions :
        s.id = loc[p].sessionId /\ s.is_active = 1 /\ now < s.expires_at

\* C5: a request presenting an unexpired access token bound to a revoked
\* session does not reach a handler; it is answered SESSION_INVALID.
C5_RevokedSessionIsRejected ==
  \A p \in Procs :
    (/\ pc[p] = "handler" \/ (pc[p] = "done" /\ req[p].kind = "bearer")
     /\ verifyJWT(req[p].token, now)
     /\ BoundSession(req[p].token) \in Deactivated)
    => (pc[p] = "done" /\ resp[p].status = 401 /\ resp[p].code = "SESSION_INVALID")

\* C6: every access token returned to a client carries a jti that is the id
\* of an existing session row.
C6_ReturnedTokenNamesSession ==
  \A p \in Procs :
    (pc[p] = "done" /\ resp[p].token # NoToken) =>
      \E s \in sessions : s.id = resp[p].token.jti

\* C7: a refresh leaves the sessions table as it was, and the token it
\* returns has the jti of the session that owns the refresh token.
C7_RefreshWritesNothing ==
  [][\A p \in Procs :
       (pc[p] = "idle" /\ pc'[p] = "done" /\ req'[p].kind = "refresh") =>
         /\ sessions' = sessions
         /\ resp'[p].status = 200 =>
              \E s \in sessions :
                /\ s.refresh_token = req'[p].refresh_token
                /\ resp'[p].token.jti = s.id]_vars

\* C7 witness: a refresh succeeded for a session that by then has two
\* access tokens, the one its login returned and a refreshed one.
C7_Witness ==
  \E p \in Procs :
    /\ pc[p] = "done" /\ req[p].kind = "refresh" /\ resp[p].status = 200
    /\ Cardinality({t \in tokens : t.jti = resp[p].token.jti}) >= 2

\* C8: a refresh with a token that matches no session, or only a revoked or
\* expired one, answers INVALID_REFRESH_TOKEN and issues nothing; a token is
\* issued only for a session that is active and unexpired.
C8_RefreshOnlyForLiveSession ==
  \A p \in Procs :
    (pc[p] = "done" /\ req[p].kind = "refresh" /\ req[p].refresh_token # NoRefresh) =>
      LET live == {s \in sessions :
                     /\ s.refresh_token = req[p].refresh_token
                     /\ ~(s.is_active = 0)
                     /\ ~(s.expires_at <= now)}
      IN IF live = {}
         THEN /\ resp[p].status = 401 /\ resp[p].code = "INVALID_REFRESH_TOKEN"
              /\ resp[p].token = NoToken
         ELSE /\ resp[p].status = 200
              /\ \E s \in live : resp[p].token.jti = s.id

\* C8 witness: the refresh token of a revoked session was refused.
C8_Witness ==
  \E p \in Procs :
    /\ pc[p] = "done" /\ req[p].kind = "refresh"
    /\ resp[p].code = "INVALID_REFRESH_TOKEN"
    /\ \E s \in sessions :
         s.refresh_token = req[p].refresh_token /\ s.is_active = 0

\* C9: a successful login adds exactly one session row, with an id and a
\* refresh_token no existing row has, is_active = 1 and expires_at = now +
\* 7 days, and returns that refresh_token with an access token whose jti is
\* the new id and whose exp is 900 seconds after its iat.
C9_LoginCreatesOneFreshSession ==
  [][\A p \in Procs :
       /\ (req[p].kind = "login" /\ pc[p] \in {"findActive", "evict"})
            => {s.id : s \in sessions'} = {s.id : s \in sessions}
       /\ (pc[p] = "create" /\ pc'[p] = "done" /\ resp'[p].status = 200) =>
            \E s \in sessions' :
              /\ sessions' = sessions \cup {s}
              /\ \A r \in sessions :
                   r.id # s.id /\ r.refresh_token # s.refresh_token
              /\ s.is_active = 1
              /\ s.expires_at = now + 7 * 24 * 60 * 60 * 1000
              /\ s.refresh_token # NoRefresh
              /\ resp'[p].refresh_token = s.refresh_token
              /\ resp'[p].token.jti = s.id
              /\ resp'[p].token.exp = resp'[p].token.iat + 900]_vars

\* C9 witness: a login succeeded while another session already existed.
C9_Witness ==
  \E p \in Procs :
    /\ pc[p] = "done" /\ req[p].kind = "login" /\ resp[p].status = 200
    /\ Cardinality(sessions) >= 2

\* C10: a login that reached credential verification has called
\* recordIPAttempt once and exactly one of recordSuccess and recordFailure.
C10_OneRecorderPerAttempt ==
  \A p \in Procs :
    (pc[p] = "done" /\ req[p].kind = "login" /\ loc[p].verified) =>
      /\ loc[p].nIPAttempt = 1
      /\ loc[p].nSuccess + loc[p].nFailure = 1

\* the request presents no stored credential of the account it names
BadCredentials(U, email, auth_hash) ==
  \A u \in U : u.email = toLowerCase(email) => u.auth_hash # auth_hash

\* C11: a login runs IP rate check, email rate check, credential
\* verification, device-limit enforcement, session creation and token issue
\* in that order, and a rejection ends it: a request the IP check or the
\* email check refuses is answered 429 (IP_RATE_LIMIT first) with no
\* credential verification and no write; a request whose credentials are
\* wrong ends without a token; rows are deactivated only at the eviction
\* step, rows are added and tokens issued only at the creation step.
C11_LoginStepsInOrder ==
  /\ [](\A p \in Procs :
          (req[p].kind = "login" /\
           BadCredentials(users, req[p].email, req[p].auth_hash)) =>
            /\ pc[p] = "done"
            /\ resp[p].status \in {401, 429}
            /\ resp[p].token = NoToken)
  /\ [][\A p \in Procs :
          /\ (pc[p] = "idle" /\ req'[p].kind = "login" /\
              ~checkIPRateLimit(kv, req'[p].ip, now).allowed) =>
               /\ pc'[p] = "done" /\ ~loc'[p].verified
               /\ resp'[p].status = 429 /\ resp'[p].code = "IP_RATE_LIMIT"
               /\ kv' = kv /\ sessions' = sessions /\ tokens' = tokens
          /\ (pc[p] = "idle" /\ req'[p].kind = "login" /\
              checkIPRateLimit(kv, req'[p].ip, now).allowed /\
              ~checkRateLimit(kv, req'[p].email, now).allowed) =>
               /\ pc'[p] = "done" /\ ~loc'[p].verified
               /\ resp'[p].status = 429
               /\ resp'[p].code = checkRateLimit(kv, req'[p].email, now).reason
               /\ kv' = kv /\ sessions' = sessions /\ tokens' = tokens
          /\ (req[p].kind = "login" /\ pc[p] # "evict") =>
               \A s \in sessions : \A r \in sessions' :
                 r.id = s.id => r.is_active = s.is_active
          /\ (req[p].kind = "login" /\ pc[p] # "create") =>
               /\ {s.id : s \in sessions'} = {s.id : s \in sessions}
               /\ tokens' = tokens
          /\ (req[p].kind = "login" /\ pc[p] = "create") =>
               (tokens' # tokens => {s.id : s \in sessions'} # {s.id : s \in sessions})]_vars

\* C11 witness: after an earlier login evicted a session, a login with a
\* wrong auth_hash for an email in its cooldown was refused by the IP check.
C11_Witness ==
  \E p \in Procs :
    /\ pc[p] = "done" /\ req[p].kind = "login"
    /\ resp[p].code = "IP_RATE_LIMIT"
    /\ BadCredentials(users, req[p].email, req[p].auth_hash)
    /\ ~checkRateLimit(kv, req[p].email, now).allowed
    /\ Deactivated # {}

\* C12: after exactly 5 recordFailure calls for an email with no
\* recordSuccess between them, the fifth no later than one hour after the
\* first, checkRateLimit for the email answers allowed:false with
\* ACCOUNT_BANNED at every time before the ban deadline (2 hours after the
\* fifth call); when no recordFailure has followed the last recordSuccess,
\* checkRateLimit answers allowed:true and the email has no stored state.
C12_FiveFailuresBanOneSuccessClears ==
    LET f == loc[SeqProc].failedAt IN
    /\ (Len(f) = 5 /\ f[5] - f[1] <= 60 * 60 * 1000 /\ now < f[5] + 2 * 60 * 60 * 1000) =>
         /\ ~checkRateLimit(kv, Alice, now).allowed
         /\ checkRateLimit(kv, Alice, now).reason = "ACCOUNT_BANNED"
    /\ f = <<>> =>
         /\ checkRateLimit(kv, Alice, now) = Allowed
         /\ LoginKey(Alice) \notin DOMAIN kv

\* C12 witness: five failures spread over exactly one hour, and a check made
\* later than the fifth answered ACCOUNT_BANNED.
C12_Witness ==
    LET f == loc[SeqProc].failedAt IN
    /\ Len(f) = 5 /\ f[5] - f[1] = 60 * 60 * 1000 /\ now > f[5]
    /\ req[SeqProc].kind = "checkRateLimit" /\ resp[SeqProc].code = "ACCOUNT_BANNED"

\* C13: once recordFailure has set banUntil for an email, checkRateLimit for
\* the email answers ACCOUNT_BANNED at every time before banUntil, whatever
\* recordFailure calls are made meanwhile; only recordSuccess ends the ban
\* earlier.
C13_BanHoldsUntilDeadline ==
  [][(/\ LoginKey(Alice) \in DOMAIN kv
      /\ kv[LoginKey(Alice)].state.banUntil # 0
      /\ now' < kv[LoginKey(Alice)].state.banUntil
      /\ ~(req'[SeqProc].kind = "recordSuccess" /\ now' = now))
     => checkRateLimit(kv', Alice, now').reason = "ACCOUNT_BANNED"]_vars

\* C14: a login request for an email, under any spelling of it, that arrives
\* less than 5 seconds after a failed login was recorded for that email is
\* rejected with 429 and without credential verification, whatever auth_hash
\* it carries; a request for an email with no failure in the last 5 seconds
\* and no ban, from an IP within its limit, reaches credential verification.
C14_CooldownAfterFailure ==
  [][\A p \in Procs :
       (pc[p] = "idle" /\ req'[p].kind = "login") =>
         LET states == {kv[key].state : key \in
                          {x \in DOMAIN kv : x[1] = "login" /\ x[2] = req'[p].email.name}}
             cooling == \E s \in states : now - s.lastFailureAt < 5 * 1000
             banned == \E s \in states : s.banUntil # 0 /\ now < s.banUntil
         IN /\ cooling =>
                 /\ ~loc'[p].verified
                 /\ resp'[p].status = 429
                 /\ resp'[p].code \in {"TOO_FREQUENT", "ACCOUNT_BANNED", "IP_RATE_LIMIT"}
            /\ (~cooling /\ ~banned /\ checkIPRateLimit(kv, req'[p].ip, now).allowed) =>
                 loc'[p].verified]_vars

\* C15: with requests handled one at a time, a login request from an IP
\* that has 10 recorded login attempts in the hour before it (evidenced by
\* the sessions its successful logins created in that hour) is rejected
\* with IP_RATE_LIMIT; and a successful login leaves the IP counter one
\* higher, never reset, while the counter's window lasts.
C15_TenAttemptsPerHour ==
  [][\A p \in Procs :
       (pc[p] = "idle" /\ req'[p].kind = "login") =>
         /\ Cardinality({s \in sessions : s.created_at > now - 60 * 60 * 1000}) >= 10
              => (resp'[p].status = 429 /\ resp'[p].code = "IP_RATE_LIMIT")
         /\ (pc'[p] = "findActive" /\ KvHas(kv, IpKey(req'[p].ip), now) /\
             now - kv[IpKey(req'[p].ip)].state.firstAttemptAt <= 60 * 60 * 1000)
              => kv'[IpKey(req'[p].ip)].state.attemptCount =
                   kv[IpKey(req'[p].ip)].state.attemptCount + 1]_vars

\* C16: a call of checkRateLimit, checkIPRateLimit or checkAdminRateLimit
\* leaves the key-value store exactly as it was, whatever the stored state
\* and the time.
C16_ChecksNeverWrite ==
  [][(/\ req'[SeqProc].kind \in {"checkRateLimit", "checkIPRateLimit", "checkAdminRateLimit"}
      /\ now' = now)
     => kv' = kv]_vars

\* C16 witness: checkAdminRateLimit has just reported that a ban has run
\* out, and the banned state is still stored.
C16_Witness ==
  /\ req[SeqProc].kind = "checkAdminRateLimit"
  /\ resp[SeqProc].status = 200
  /\ AdminKey("ip1") \in DOMAIN kv
  /\ kv[AdminKey("ip1")].state.banUntil # 0
  /\ now >= kv[AdminKey("ip1")].state.banUntil

\* C17: a login request with a well-formed email and an auth_hash that
\* matches no stored hash gets the same response (status, code, message)
\* and makes the same change to the rate-limit store whether or not the
\* email is registered; a login with the stored auth_hash of a registered
\* user is accepted whenever the rate checks let it through; and the
\* handler answers and writes as this function of the users table says.
C17_SameAnswerForUnknownAndWrong ==
  /\ [](\A email \in {Alice, AliceMixed} : \A auth_hash \in Hashes : \A ip \in IPs :
          /\ BadCredentials(users, email, auth_hash) =>
               LoginReply(users, kv, email, auth_hash, ip, now) =
                 LoginReply(users \ findByEmail(users, email), kv, email, auth_hash, ip, now)
          /\ (~BadCredentials(users, email, auth_hash) /\
              checkIPRateLimit(kv, ip, now).allowed /\
              checkRateLimit(kv, email, now).allowed) =>
               LoginReply(users, kv, email, auth_hash, ip, now).status = 200)
  /\ [][\A p \in Procs :
          (pc[p] = "idle" /\ req'[p].kind = "login") =>
            LET reply == LoginReply(users, kv, req'[p].email, req'[p].auth_hash,
                                    req'[p].ip, now)
            IN /\ kv' = reply.kv
               /\ IF reply.status = 200 THEN pc'[p] = "findActive"
                  ELSE /\ pc'[p] = "done"
                       /\ resp'[p].status = reply.status
                       /\ resp'[p].code = reply.code]_vars

\* C17 witness: a login with a wrong auth_hash for the registered email has
\* been answered LOGIN_FAILED and its failure is on record.
C17_Witness ==
  \E p \in Procs :
    /\ pc[p] = "done" /\ req[p].kind = "login"
    /\ resp[p].status = 401 /\ resp[p].code = "LOGIN_FAILED"
    /\ emailExists(users, req[p].email)
    /\ LoginKey(req[p].email) \in DOMAIN kv

\* C18: getSalt does not tell a registered email from an unregistered one:
\* the responses obtained for an unregistered email are all successes and
\* all carry the same salt, as the responses for a registered email do.
C18_SaltHidesRegistration ==
  \A p \in Procs : \A q \in Procs :
    (/\ pc[p] = "done" /\ req[p].kind = "salt"
     /\ pc[q] = "done" /\ req[q].kind = "salt"
     /\ req[p].email = req[q].email
     /\ ~emailExists(users, req[p].email))
    => (resp[p].status = 200 /\ resp[p].salt = resp[q].salt)

\* C20: the users table holds at most one record per case-folded email; of
\* the register calls for emails equal up to letter case at most one is
\* answered 200; and no step changes or removes a stored user record.
C20_OneUserPerEmail ==
  /\ [](/\ \A u \in users : \A v \in users :
             toLowerCase(u.email) = toLowerCase(v.email) => u = v
        /\ \A p \in Procs : \A q \in Procs :
             (/\ pc[p] = "done" /\ req[p].kind = "register" /\ resp[p].status = 200
              /\ pc[q] = "done" /\ req[q].kind = "register" /\ resp[q].status = 200
              /\ toLowerCase(req[p].email) = toLowerCase(req[q].email))
             => p = q)
  /\ [][users \subseteq users']_vars

\* C20 witness: of two interleaved register calls for two spellings of one
\* email with different salts, both past emailExists, one was answered 200
\* and the other failed at the insert.
C20_Witness ==
  \E p \in Procs : \E q \in Procs :
    /\ pc[p] = "done" /\ req[p].kind = "register" /\ resp[p].status = 200
    /\ pc[q] = "done" /\ req[q].kind = "register" /\ resp[q].status = 400
    /\ req[p].email # req[q].email /\ req[p].salt # req[q].salt
    /\ Cardinality(users) = 1
    /\ nextUuid = 3

\* C19: when register succeeds, getSalt returns the submitted salt for
\* every letter-case spelling of the email, whatever generateSalt would
\* draw; no later step (login, refresh, logout, revoke, another register)
\* changes what getSalt returns for a registered email; and the salt
\* endpoint answers a registered email with what getSalt returns.
C19_SaltRoundTrip ==
  [][\A p \in Procs :
       /\ (pc[p] = "idle" /\ req'[p].kind = "register" /\ resp'[p].status = 200) =>
            \A email \in Emails : \A random \in Salts :
              toLowerCase(email) = toLowerCase(req'[p].email) =>
                getSalt(users', email, random) = req'[p].salt
       /\ \A email \in Emails : \A random \in Salts :
            emailExists(users, email) =>
              getSalt(users', email, random) = getSalt(users, email, random)
       /\ (pc[p] = "idle" /\ req'[p].kind = "salt" /\ emailExists(users, req'[p].email)) =>
            /\ resp'[p].status = 200
            /\ \A random \in Salts :
                 resp'[p].salt = getSalt(users, req'[p].email, random)]_vars

\* C19 witness: after a session was deactivated, a salt request that
\* spells the registered email in mixed case was answered with the stored
\* salt, the second of the two salt values.
C19_Witness ==
  \E p \in Procs :
    /\ pc[p] = "done" /\ req[p].kind = "salt" /\ req[p].email = AliceMixed
    /\ Deactivated # {}
    /\ resp[p].salt = "S2"
    /\ \E u \in users : u.salt = "S2"

\* C21: while JWT_SECRET is unset or the placeholder, no request is answered
\* with success or a token, none gets past authMiddleware, and no token is
\* signed, whatever sessions the store holds
C21_NoTokenWithoutSecret ==
  [][\A p \in Procs :
       pc'[p] # pc[p] =>
         /\ pc'[p] # "handler"
         /\ resp'[p].status \notin 200..299
         /\ resp'[p].token = NoToken
         /\ tokens' = tokens]_vars

\* C22: a request that presents a validly signed, unexpired token without a
\* jti is never refused, and once it has passed the middleware exactly one
\* session row legacy-<user_id>-<exp> exists
C22_LegacyTokenAcceptedOneRow ==
  \A p \in Procs :
    (/\ pc[p] \in {"handler", "done"}
     /\ req[p].token.jti = NoJti
     /\ verifyJWT(req[p].token, now))
    => /\ resp[p].status # 401
       /\ Cardinality({s \in sessions :
            s.id = LegacyId(req[p].token.user_id, req[p].token.exp)}) = 1

C24_RefusalsIndistinguishable ==
  \A p \in Procs :
    req[p].kind = "bearer" =>
      LET token == req[p].token
          segments == Len(token.parts)
          malformed == segments # 3
          wrongSignature == \/ token.altered = "no" /\ req[p].secret # token.secret
                            \/ token.altered \in {"payload", "signature"}
                                 /\ req[p].secret = token.secret
          expired == /\ segments >= 2
                     /\ base64UrlDecode(token.parts[2]).exp
                          < getCurrentTimestamp(req[p].at)
      IN (malformed \/ wrongSignature \/ expired)
           => resp[p] = [status |-> 401, code |-> "UNAUTHORIZED",
                         message |-> "Invalid or expired token",
                         result |-> "Invalid or expired token"]

\* the middleware has refused a token only because it expired
C24_Witness ==
  /\ req[SeqProc].kind = "bearer"
  /\ req[SeqProc].token.altered = "no"
  /\ req[SeqProc].secret = req[SeqProc].token.secret
  /\ base64UrlDecode(req[SeqProc].token.parts[2]).exp
       < getCurrentTimestamp(req[SeqProc].at)
  /\ resp[SeqProc].status = 401

\* C25: DELETE /api/sessions/:sessionId deactivates the target, and only the
\* target, exactly when it exists, belongs to the caller and is not the
\* caller's current session; for the current session it answers
\* CANNOT_LOGOUT_SELF, for a missing or foreign one FORBIDDEN, and in both
\* cases no row changes
C25_RevokeOnlyOwnOtherSession ==
  [][\A p \in Procs :
       (pc[p] = "handler" /\ req'[p].kind = "revoke") =>
         LET target == req'[p].target
             own == {s \in sessions : s.id = target /\ s.user_id = loc[p].user}
         IN IF target = loc[p].sessionId THEN
              resp'[p].code = "CANNOT_LOGOUT_SELF" /\ sessions' = sessions
            ELSE IF own = {} THEN
              resp'[p].code = "FORBIDDEN" /\ sessions' = sessions
            ELSE
              /\ resp'[p].status = 200
              /\ sessions' = (sessions \ own) \cup
                             {[s EXCEPT !.is_active = 0] : s \in own}]_vars

\* a caller was refused the session of another user, which is still active
C25_Witness ==
  /\ req[SeqProc].kind = "revoke"
  /\ resp[SeqProc].code = "FORBIDDEN"
  /\ \E s \in sessions : /\ s.id = req[SeqProc].target
                         /\ s.user_id # loc[SeqProc].user
                         /\ s.is_active = 1

\* C26: a request authenticated as user U that does not carry the admin
\* password changes no session row and no account of any other user
C26_NoEffectOnOtherUsers ==
  [][\A p \in Procs :
       (pc[p] = "handler" /\ pc'[p] = "done" /\ req'[p].kind # "adminCleanup") =>
         /\ {s \in sessions' : s.user_id # loc[p].user}
              = {s \in sessions : s.user_id # loc[p].user}
         /\ {u \in users' : u.id # loc[p].user}
              = {u \in users : u.id # loc[p].user}]_vars

\* C27: a login request that ends because a session-store operation failed
\* is answered with a 500-class status
C27_StoreFailureIsInternalError ==
  [][\A p \in Procs :
       (/\ pc[p] \in {"findActive", "evict", "create"}
        /\ pc'[p] = "done"
        /\ resp'[p].token = NoToken)
       => resp'[p].status \in 500..599]_vars

\* the request of p has run its UPDATE statement / has changed the row
UpdateRan(p) ==
  /\ req[p].kind = "update"
  /\ pc[p] = "fetch" \/ (pc[p] = "done" /\ resp[p].status \in {200, 409})
UpdateSucceeded(p) ==
  /\ req[p].kind = "update"
  /\ pc[p] = "fetch" \/ (pc[p] = "done" /\ resp[p].status = 200)

\* C28: an update of a note or password changes the row only if the version
\* it carries is the stored one, and then the stored version grows by
\* exactly 1 and no other row changes; otherwise no row changes and the
\* answer is 409 VERSION_CONFLICT; of two concurrent updates of one row that
\* carry its stored version exactly one succeeds
C28_VersionGuardsUpdate ==
  /\ [][\A p \in Procs :
          (pc[p] = "update" /\ pc'[p] # "update") =>
            LET current == {n \in notes : /\ n.table = req[p].table
                                          /\ n.id = req[p].id
                                          /\ n.user_id = loc[p].user
                                          /\ n.version = req[p].input.version}
            IN IF current = {} THEN
                 /\ notes' = notes
                 /\ resp'[p].status = 409
                 /\ resp'[p].code = "VERSION_CONFLICT"
               ELSE
                 /\ resp'[p].status # 409
                 /\ \E n \in current : \E m \in notes' :
                      /\ notes' = (notes \ {n}) \cup {m}
                      /\ m.table = n.table /\ m.id = n.id /\ m.user_id = n.user_id
                      /\ m.version = n.version + 1
                      /\ m.encrypted_content = req[p].input.encrypted_content]_vars
  /\ [](\A p \in Procs : \A q \in Procs \ {p} :
          (/\ UpdateRan(p) /\ UpdateRan(q)
           /\ req[p].table = req[q].table /\ req[p].id = req[q].id
           /\ loc[p].user = loc[q].user
           /\ req[p].input.version = req[q].input.version)
          => /\ ~(UpdateSucceeded(p) /\ UpdateSucceeded(q))
             /\ (/\ req[p].input.version = 1
                 /\ \E n \in notes : /\ n.table = req[p].table /\ n.id = req[p].id
                                     /\ n.user_id = loc[p].user)
                => (UpdateSucceeded(p) \/ UpdateSucceeded(q)))

\* two updates of one row carried the same version while in flight together:
\* one is answered 200, the other 409
C28_Witness ==
  /\ req[1].kind = "update" /\ req[2].kind = "update"
  /\ req[1].table = req[2].table /\ req[1].id = req[2].id
  /\ loc[1].user = loc[2].user
  /\ req[1].input.version = req[2].input.version
  /\ resp[1].status = 409 /\ resp[1].code = "VERSION_CONFLICT"
  /\ resp[2].status = 200
  /\ \E n \in notes : /\ n.table = req[1].table /\ n.id = req[1].id
                      /\ n.version = req[1].input.version + 1

\* C29: a heartbeat answers with the user_id of the presented token and the
\* id of the session the token is bound to, and changes no stored state
C29_HeartbeatEchoesIdentity ==
  [][\A p \in Procs :
       (pc[p] = "handler" /\ req'[p].kind = "heartbeat") =>
         /\ resp'[p].status = 200
         /\ resp'[p].user_id = req[p].token.user_id
         /\ resp'[p].session_id = loc[p].sessionId
         /\ UNCHANGED <<users, sessions, tokens, kv, notes>>]_vars

\* C30: the eviction statement of a login deactivates a session with the
\* smallest created_at among the sessions of the same user that are active
\* and unexpired when it runs, and leaves every other session as it was
C30_EvictsOldestActiveOfUser ==
  [][\A p \in Procs :
       (pc[p] = "evict" /\ pc'[p] = "create") =>
         LET live == {s \in sessions : /\ s.user_id = loc[p].user
                                       /\ s.is_active = 1
                                       /\ s.expires_at > now}
         IN IF live = {} THEN sessions' = sessions
            ELSE \E victim \in live :
                   /\ \A s \in live : victim.created_at <= s.created_at
                   /\ sessions' = (sessions \ {victim})
                                    \cup {[victim EXCEPT !.is_active = 0]}]_vars

\* a login has evicted a session of its user although that user has older
\* sessions, logged out and expired, and another user has older active ones
C30_Witness ==
  \E p \in Procs : \E victim \in sessions :
    /\ loc[p].revokedSession = {victim.id}
    /\ victim.is_active = 0
    /\ \E s \in sessions : /\ s.user_id = victim.user_id /\ s.is_active = 0
                           /\ s.created_at < victim.created_at
    /\ \E s \in sessions : /\ s.user_id = victim.user_id /\ s.is_active = 1
                           /\ s.expires_at <= now
                           /\ s.created_at < victim.created_at
    /\ \E s \in sessions : /\ s.user_id # victim.user_id /\ s.is_active = 1
                           /\ s.created_at < victim.created_at

\* C31: once a login that no other request of the user overlapped has
\* succeeded, the user has at most 3 active unexpired sessions
C31_LoneLoginRestoresLimit ==
  (pc[SeqProc] = "done" /\ resp[SeqProc].status = 200)
    => Cardinality(findActive(sessions, loc[SeqProc].user, now)) <= 3

\* C32: a login deactivates a session only in a state in which its user has
\* at least 3 active unexpired sessions
C32_EvictsOnlyAtLimit ==
  [][\A p \in Procs :
       (pc[p] = "evict" /\ sessions' # sessions)
         => Cardinality(findActive(sessions, loc[p].user, now)) >= 3]_vars

\* C33: a session that a completed logout or revoke-session request has
\* revoked is not active in any later state, whatever requests and cleanups
\* follow
C33_RevocationPermanent ==
  \A p \in Procs :
    (pc[p] = "done" /\ resp[p].status = 200 /\ req[p].kind \in {"logout", "revoke"}) =>
      LET id == IF req[p].kind = "logout" THEN loc[p].sessionId ELSE req[p].target
      IN ~\E s \in sessions : s.id = id /\ s.is_active = 1

\* the failed logins on record for one spelling of an email
FailuresOf(email) ==
  IF KvHas(kv, LoginKey(email), now) THEN kv[LoginKey(email)].state.failureCount ELSE 0

\* C34: when the failed logins of the last hour under the spellings of one
\* registered email number 5 or more, a login under any of the spellings is
\* rejected with ACCOUNT_BANNED
C34_FailuresCountedAcrossSpellings ==
  [][\A p \in Procs :
       (/\ pc[p] = "idle" /\ req'[p].kind = "login"
        /\ toLowerCase(req'[p].email) = Alice
        /\ FailuresOf(Alice) + FailuresOf(AliceMixed) >= BanThreshold
        /\ checkIPRateLimit(kv, req'[p].ip, now).allowed)
         => resp'[p].status = 429 /\ resp'[p].code = "ACCOUNT_BANNED"]_vars

\* C35: the stored failureCount equals the number of recordFailure calls
\* that have completed, and 5 completed calls leave the email banned
C35_NoFailureLost ==
  /\ FailuresOf(Alice) = Completed
  /\ Completed >= BanThreshold
       => checkRateLimit(kv, Alice, now).reason = "ACCOUNT_BANNED"

\* C36: recordFailure at time t, finding no stored state or one whose
\* firstFailureAt is more than one hour before t, stores failureCount 1 with
\* both times t and no ban; otherwise it adds 1 to failureCount, sets
\* lastFailureAt to t, keeps firstFailureAt, and sets banUntil to t + 2 hours
\* exactly when the new failureCount is at least 5.
C36_RecordFailureStep ==
  [][(req'[SeqProc].kind = "recordFailure" /\ now' = now) =>
       LET key == LoginKey(req'[SeqProc].email)
           stored == key \in DOMAIN kv /\ now < kv[key].expiration
           new == kv'[key].state
       IN IF ~stored \/ kv[key].state.firstFailureAt + 60 * 60 * 1000 < now
          THEN /\ new.failureCount = 1
               /\ new.firstFailureAt = now /\ new.lastFailureAt = now
               /\ new.banUntil = 0
          ELSE LET old == kv[key].state IN
               /\ new.failureCount = old.failureCount + 1
               /\ new.lastFailureAt = now
               /\ new.firstFailureAt = old.firstFailureAt
               /\ new.banUntil = (IF new.failureCount >= 5
                                  THEN now + 2 * 60 * 60 * 1000 ELSE 0)]_vars

\* C36 witness: recordFailure has just counted a fifth failure exactly one
\* hour after the first and set the ban.
C36_Witness ==
  /\ req[SeqProc].kind = "recordFailure"
  /\ LoginKey(Alice) \in DOMAIN kv
  /\ LET state == kv[LoginKey(Alice)].state IN
       /\ state.failureCount = 5
       /\ state.lastFailureAt = now
       /\ state.lastFailureAt - state.firstFailureAt = 60 * 60 * 1000
       /\ state.banUntil = now + 2 * 60 * 60 * 1000

\* a registration, login or admin-password verification enters its handler
Enters(p) ==
  /\ pc[p] \in {"idle", "handler"}
  /\ req'[p].kind \in {"register", "login", "adminVerify"}
  /\ resp'[p].code # "ADMIN_NOT_CONFIGURED"

\* C37: registrations, logins and admin-password verifications of one IP are
\* counted in one counter: a request of any of the three kinds that passes
\* the rate checks adds one attempt to it, and while it holds 10 or more
\* attempts begun less than an hour ago a request of any of the three kinds
\* is answered IP_RATE_LIMIT and changes nothing.
C37_OneIpCounterForThreeKinds ==
  [][\A p \in Procs : Enters(p) =>
       LET key == IpKey(req'[p].ip)
           held == key \in DOMAIN kv /\ now < kv[key].expiration
           count == IF held THEN kv[key].state.attemptCount ELSE 0
           full == held /\ count >= 10
                     /\ now - kv[key].state.firstAttemptAt < 60 * 60 * 1000
       IN /\ full => /\ resp'[p].status = 429 /\ resp'[p].code = "IP_RATE_LIMIT"
                     /\ kv' = kv
          /\ (~full /\ resp'[p].code \notin {"ACCOUNT_BANNED", "TOO_FREQUENT", "ADMIN_BANNED"})
               => /\ key \in DOMAIN kv'
                  /\ kv'[key].state.attemptCount \in {count + 1, 1}
                  /\ kv'[key].state.attemptCount = 1 =>
                       (~held \/ now - kv[key].state.firstAttemptAt > 60 * 60 * 1000)]_vars

\* C37 witness: an admin-password verification has just been refused with
\* IP_RATE_LIMIT after a registration and a login of this behaviour succeeded.
C37_Witness ==
  /\ req[SeqProc].kind = "adminVerify"
  /\ resp[SeqProc].code = "IP_RATE_LIMIT"
  /\ \E s \in sessions : s.id[1] = "uuid"
  /\ \E u \in users : u.email = Bob

\* an admin-password verification enters its handler, ADMIN_PASSWORD set
Verifies(p) ==
  /\ pc[p] = "handler" /\ req'[p].kind = "adminVerify"
  /\ resp'[p].code # "ADMIN_NOT_CONFIGURED"

\* the failure state stored for the IP of the request, if any
AdminHeld(p) ==
  AdminKey(req'[p].ip) \in DOMAIN kv /\ now < kv[AdminKey(req'[p].ip)].expiration
\* five or more failures are on record, the fifth within an hour of the
\* first and less than two hours ago
AdminBanned(p) ==
  /\ AdminHeld(p)
  /\ LET state == kv[AdminKey(req'[p].ip)].state IN
       /\ state.failureCount >= 5
       /\ state.lastFailureAt - state.firstFailureAt <= 60 * 60 * 1000
       /\ now < state.lastFailureAt + 2 * 60 * 60 * 1000

\* the failures on record are counted: a failed check adds one to the count
\* of a state begun at most an hour ago and starts a count of 1 otherwise; a
\* successful check deletes the state
AdminCounts(p) ==
  LET key == AdminKey(req'[p].ip) IN
  /\ resp'[p].status = 403 =>
       /\ key \in DOMAIN kv'
       /\ IF AdminHeld(p) /\ now - kv[key].state.firstFailureAt <= 60 * 60 * 1000
          THEN /\ kv'[key].state.failureCount = kv[key].state.failureCount + 1
               /\ kv'[key].state.firstFailureAt = kv[key].state.firstFailureAt
               /\ kv'[key].state.lastFailureAt = now
          ELSE /\ kv'[key].state.failureCount = 1
               /\ kv'[key].state.firstFailureAt = now
               /\ kv'[key].state.lastFailureAt = now
  /\ resp'[p].status = 200 => key \notin DOMAIN kv'

\* C38 as stated: with 5 failed checks on record, the fifth within an hour
\* of the first and less than 2 hours ago, a verification request is
\* answered ADMIN_BANNED without the password being compared; a successful
\* check deletes the failure state.
C38_BannedAnswersAdminBanned ==
  [][\A p \in Procs : Verifies(p) =>
       /\ AdminCounts(p)
       /\ AdminBanned(p) =>
            /\ resp'[p].status = 429 /\ resp'[p].code = "ADMIN_BANNED"
            /\ ~loc'[p].verified /\ kv' = kv
       /\ (~AdminBanned(p) /\ checkIPRateLimit(kv, req'[p].ip, now).allowed)
            => loc'[p].verified]_vars

\* C38 amended: with 5 failed checks on record, the fifth within an hour of
\* the first and less than 2 hours ago, a verification request is refused
\* without the password being compared, with IP_RATE_LIMIT when the IP's
\* attempt counter is at its limit and with ADMIN_BANNED otherwise; once the
\* 2 hours are over the password is compared again; a successful check
\* deletes the failure state.
C38_BannedIsRefused ==
  [][\A p \in Procs : Verifies(p) =>
       /\ AdminCounts(p)
       /\ AdminBanned(p) =>
            /\ resp'[p].status = 429
            /\ resp'[p].code =
                 (IF checkIPRateLimit(kv, req'[p].ip, now).allowed
                  THEN "ADMIN_BANNED" ELSE "IP_RATE_LIMIT")
            /\ ~loc'[p].verified /\ kv' = kv
       /\ (~AdminBanned(p) /\ checkIPRateLimit(kv, req'[p].ip, now).allowed)
            => loc'[p].verified]_vars

\* C38 witness: a verification has just been refused with ADMIN_BANNED one
\* hour after a fifth failure that came one hour after the first.
C38_Witness ==
  /\ req[SeqProc].kind = "adminVerify"
  /\ resp[SeqProc].code = "ADMIN_BANNED"
  /\ AdminKey("ip1") \in DOMAIN kv
  /\ LET state == kv[AdminKey("ip1")].state IN
       /\ state.lastFailureAt - state.firstFailureAt = 60 * 60 * 1000
       /\ now = state.lastFailureAt + 60 * 60 * 1000

\* C39: the cache never holds more entries than its capacity
C39_SizeWithinCapacity == size(cache) <= capacity(maxSize)

\* the keys of the entries, and the number of the last use of a key
CachedKeys(c) == {c[i].key : i \in 1..Len(c)}
LastUseOf(key) ==
  IF \E i \in 1..Len(used) : used[i] = key
  THEN CHOOSE i \in 1..Len(used) : used[i] = key /\ \A j \in (i + 1)..Len(used) : used[j] # key
  ELSE 0

\* C40: set of an absent key into a full cache removes exactly one entry,
\* the one whose last get or set is the oldest; set of a present key removes
\* no other entry; either way the key ends as the newest entry with the new
\* value and the other entries keep their values.
C40_SetEvictsLeastRecentlyUsed ==
  [][(ret'.op = "set" /\ used' # used) =>
       LET key == ret'.key
           before == CachedKeys(cache)
           after == CachedKeys(cache')
           full == size(cache) >= capacity(maxSize) /\ cache # <<>>
           Kept(victims) ==
             /\ after = (before \ victims) \cup {key}
             /\ \A other \in before \ (victims \cup {key}) :
                  EntryOf(cache', other).value = EntryOf(cache, other).value
       IN /\ (~has(cache, key) /\ full) =>
               \E victim \in before :
                 /\ \A other \in before \ {victim} : LastUseOf(victim) < LastUseOf(other)
                 /\ Kept({victim})
                 /\ size(cache') = size(cache)
          /\ has(cache, key) => Kept({}) /\ size(cache') = size(cache)
          /\ EntryOf(cache', key).value = ret'.value
          /\ cache'[Len(cache')].key = key]_vars

\* C40 witness: two keys were set, the first was used again, and the set of
\* a third key has just evicted the second.
C40_Witness ==
  /\ ret.op = "set" /\ maxSize = 2 /\ Len(used) = 4
  /\ used[1] = used[3] /\ used[2] # used[1] /\ used[4] \notin {used[1], used[2]}
  /\ CachedKeys(cache) = {used[1], used[4]}

====
